---- MODULE Spec2Model ----
(***************************************************************************)
(* Model of the speech-session controller of patient-outreach-live-agent:  *)
(* VoiceLiveSession (src/app/voice_live.py) as it is driven by two asyncio *)
(* tasks, the media intake (src/app/main.py, media websocket handler) and  *)
(* the receive loop (VoiceLiveSession.receive_loop).                       *)
(*                                                                         *)
(* Every `await ws.send(...)` is a point where the running task may be     *)
(* suspended: the message is written, the task parks at a pc, and any      *)
(* other task may run before it resumes.  Code between two awaits is one   *)
(* atomic step.                                                            *)
(*                                                                         *)
(* Times are integers in milliseconds.  A frame is 20 ms of PCM16; the     *)
(* model carries a frame as its submission index and its RMS energy.       *)
(* audioop is taken to be importable (voice_live.py:11-14).                *)
(*                                                                         *)
(* The second half models the media bridge between the telephony websocket *)
(* and the speech session, in the three forms the repository holds:        *)
(*   "app"   src/app/main.py (media_ws, _pacer) with VoiceLiveSession,     *)
(*   "app2"  src/app2/media_bridge.py with src/app2/speech_session.py      *)
(*           (src/app/voice_live_ga.py segments its output the same way),  *)
(*   "sdk"   src/app/media_bridge.py with src/app/speech_session.py.       *)
(* Audio is carried as runs of numbered bytes, so that cutting, joining,   *)
(* dropping and reordering are all visible.                                *)
(***************************************************************************)
EXTENDS Integers, Sequences, FiniteSets, TLC

VARIABLES
    cfg,              \* the Settings / environment the session was built with
    env,              \* what the world outside may do: how many frames, which energies, ...
    vl,               \* the fields of the VoiceLiveSession object
    now,              \* the event loop's monotonic clock, ms
    task,             \* per task: where it is suspended and its locals
    frames_to_send,   \* receive_loop's local copy of the staged frames being replayed
    submitted,        \* number of frames the bridge has passed to send_input_audio_frame
    appended,         \* ids of the frames sent as input_audio_buffer.append, in wire order
    pending_acks,     \* input_audio_buffer.commit messages sent and not yet answered
    last_commit,      \* what the last commit sent carried (trigger, accumulator)
    last_eval,        \* what the last frame evaluation did (gates, barge-in)
    since_empty,      \* frames appended since a commit_empty error not yet followed by a commit, else None
    service,          \* the speech service's responses: how many it started, whether one is
                      \* open, and the response.create requests it got and refused
    bcfg,             \* the media settings and which form of the bridge is running
    benv,             \* what the service and the telephony peer may send to the bridge
    out,              \* the session's outbound side: assembly buffer, ring, counters
    pacer,            \* the task that takes frames off the ring and sends them to telephony
    media,            \* the telephony websocket handler: handshake, inbound loop, start gate
    call,             \* the call AppState tracks, its clocks, and the calls of close()
    app_state,        \* AppState's call dicts and counters, and the view snapshot() returned
    batch,            \* the batching SpeechSession's input buffer, its flush tasks and
                      \* the append payloads it has sent
    hooks             \* the call-event webhook: the sessions it created, the module's
                      \* session global, its handlers in flight, and /app2's media socket

vars == <<cfg, env, vl, now, task, frames_to_send, submitted, appended, pending_acks,
          last_commit, last_eval, since_empty, service, bcfg, benv, out, pacer, media,
          call, app_state, batch, hooks>>

\* The variables of the commit controller, which the bridge's own steps leave alone
controller == <<cfg, env, now, task, frames_to_send, submitted, appended, pending_acks,
                last_commit, last_eval, since_empty, service>>

\* What neither the controller nor the bridge touches
rest == <<app_state, batch, hooks>>

\* The same with the call, which only the steps that end a call or a session
\* change
steady == <<controller, call, rest>>

(***************************************************************************)
(* Bounds of the model                                                     *)
(***************************************************************************)
MaxFrames == 7
VariantFrames == 5
BargeFrames == 3
LongRunFrames == 13
MaxTicks == 3
MaxResponses == 1
RefusalTicks == 1
\* Frames of trailing silence in the scripted scenario
ScenarioTail == 10
\* Frames of the run with pauses
ReleaseFrames == 5
\* The bridge: audio payloads per run (and per run with a sender at work),
\* telephony messages per run, failing
\* sends per run, and the frames pushed at a ring nobody reads
MaxDeltas == 3
PacedDeltas == 1
BurstDeltas == 8
MaxMessages == 3
MaxSendErrors == 1
UnreadFrames == 100
\* The end of a call: iterations of the timeout watcher, call events, calls of
\* close()
MaxWatcherRuns == 3
MaxCallEvents == 1
MaxCloseCalls == 2
\* The runtime state: calls begun, operations applied, frames counted, seconds
MaxCalls == 2
MaxStateSteps == 5
MaxStateFrames == 1
MaxTimers == 2
MaxBatchFrames == 4
MaxBatchClockMs == 100
BatchTargetFrames == 3
BatchIntervalMs == 40
BatchMaxIntervalMs == 80
MaxHandlers == 3
MaxSessions == 3
MaxHookFrames == 2
MaxStateClock == 3

(***************************************************************************)
(* Program constants                                                       *)
(***************************************************************************)
FrameMs == 20
NoiseWindow == 50
AdaptiveCapMs == 300
CooldownFrames == 8
EscalationBlocks == 3
StaticSpeechRms == 500

None == 0 - 1

Max(a, b) == IF a >= b THEN a ELSE b
Min(a, b) == IF a <= b THEN a ELSE b

\* The clock value at which the session is constructed: loop.time() is the
\* machine's monotonic clock, far from zero.
ClockStart == 100 * FrameMs

Tasks == {"intake", "recv"}

\* RMS energies of the frames the bridge submits: a quiet line and loud speech.
RmsLevels == {30, 3000}

(***************************************************************************)
(* Configuration (src/app/config.py Settings and the os.getenv reads in    *)
(* VoiceLiveSession.__init__), with its defaults.                          *)
(***************************************************************************)
DefaultCfg ==
    [ vl_input_min_ms                |-> 160,
      vl_input_safety_ms             |-> 40,
      dynamic_rms_enabled            |-> TRUE,
      vl_dynamic_rms_offset          |-> 300,
      vl_dynamic_rms_min             |-> 40,
      vl_dynamic_rms_max             |-> 1600,
      vl_min_speech_frames           |-> 5,
      vl_max_buffer_ms               |-> 2000,
      vl_bootstrap_duration_ms       |-> 2000,
      vl_bootstrap_rms_offset        |-> 80,
      vl_bootstrap_min_speech_frames |-> 3,
      vl_silence_commit_ms           |-> 140,
      vl_offset_decay_step           |-> 10,
      vl_offset_decay_interval_ms    |-> 200,
      vl_offset_decay_min            |-> 40,
      no_speech_commit_ms            |-> 600,
      no_speech_low_speech_blocks    |-> 3,
      vl_commit_min_user_ms          |-> 600,
      vl_barge_in_enabled            |-> TRUE,
      vl_barge_in_offset             |-> 40,
      vl_barge_in_min_agent_ms       |-> 800,
      vl_barge_in_min_user_ms        |-> 160,
      vl_barge_in_cooldown_ms        |-> 1200,
      vl_barge_in_release_frames     |-> 6,
      vl_barge_in_lock_ms            |-> 1200,
      vl_barge_in_abs_min_rms        |-> 100,
      auto_response_on_commit        |-> TRUE,
      \* VOICE_LIVE_COMMIT_RESPONSE_INSTRUCTIONS is set to a non-blank text
      commit_response_instructions   |-> FALSE ]

\* The same settings with every duration scaled down to a few frames, so that
\* the commit triggers, the bootstrap window and the barge-in windows are all
\* crossed within the model's bounds.
ScaledCfg ==
    [ DefaultCfg EXCEPT
      !.vl_min_speech_frames           = 2,
      !.vl_bootstrap_min_speech_frames = 1,
      !.vl_max_buffer_ms               = 5 * FrameMs,
      !.vl_bootstrap_duration_ms       = FrameMs,
      !.vl_silence_commit_ms           = FrameMs,
      !.vl_offset_decay_interval_ms    = FrameMs,
      !.no_speech_commit_ms            = 2 * FrameMs,
      !.vl_commit_min_user_ms          = 2 * FrameMs,
      !.vl_barge_in_min_agent_ms       = FrameMs,
      !.vl_barge_in_min_user_ms        = FrameMs,
      !.vl_barge_in_cooldown_ms        = 2 * FrameMs,
      !.vl_barge_in_release_frames     = 2,
      !.vl_barge_in_lock_ms            = 2 * FrameMs ]

(***************************************************************************)
(* Audio as the bridge sees it: a bytes object is a sequence of runs of     *)
(* consecutively numbered bytes, [tag, lo, hi]; adjacent runs are joined.   *)
(***************************************************************************)
Run(tag, lo, n) ==
    IF n <= 0 THEN <<>> ELSE << [ tag |-> tag, lo |-> lo, hi |-> lo + n - 1 ] >>

RunLen(r) == r.hi - r.lo + 1

\* len(b)
RECURSIVE ByteLen(_)
ByteLen(b) ==
    IF b = <<>> THEN 0 ELSE RunLen(Head(b)) + ByteLen(Tail(b))

\* bytearray.extend: b followed by c
Extend(b, c) ==
    IF c = <<>> THEN b
    ELSE IF b = <<>> THEN c
    ELSE IF b[Len(b)].tag = c[1].tag /\ b[Len(b)].hi + 1 = c[1].lo
    THEN SubSeq(b, 1, Len(b) - 1) \o << [ b[Len(b)] EXCEPT !.hi = c[1].hi ] >> \o Tail(c)
    ELSE b \o c

\* b[:n]
RECURSIVE Take(_, _)
Take(b, n) ==
    IF n <= 0 \/ b = <<>> THEN <<>>
    ELSE IF RunLen(Head(b)) <= n
    THEN Extend(<< Head(b) >>, Take(Tail(b), n - RunLen(Head(b))))
    ELSE << [ Head(b) EXCEPT !.hi = Head(b).lo + n - 1 ] >>

\* del b[:n]
RECURSIVE Drop(_, _)
Drop(b, n) ==
    IF n <= 0 \/ b = <<>> THEN b
    ELSE IF RunLen(Head(b)) <= n
    THEN Drop(Tail(b), n - RunLen(Head(b)))
    ELSE << [ Head(b) EXCEPT !.lo = Head(b).lo + n ] >> \o Tail(b)

(***************************************************************************)
(* The media bridge: constants of the code, settings, initial state         *)
(***************************************************************************)
\* asyncio.Queue(maxsize=64): voice_live.py:45, app2/speech_session.py:23,
\* voice_live_ga.py:45
RingCapacity == 64
\* deque(maxlen=500), app/speech_session.py:78
SdkRingCapacity == 500
\* voice_live.py:59, the rate of the telephony leg
TargetRate == 16000
\* voice_live.py:50 and 916
AssumedOutputRate == 24000
\* main.py:626, state.py:384
AUDIO_CHUNK_SIZE == 640
\* main.py:425-427
MAX_BATCH_PER_TICK == 8
HIGH_BACKLOG_THRESHOLD == 10
LOW_BACKLOG_SLEEP_THRESHOLD == 2
\* state.py:382 and 413
\* _timeout_watcher sleeps 5 s between its checks (main.py:287)
WatcherPeriodSec == 5
SilencePeak == 128
RmsWindow == 100
\* app/speech_session.py:327
WideFrameBytes == 960

Impls == {"app", "app2", "sdk"}

\* src/app/config.py:28-43 (the same names in src/app2/config.py)
DefaultBridgeCfg ==
    [ impl                       |-> "app",
      media_frame_bytes          |-> 640,
      media_bidirectional        |-> TRUE,
      media_enable_voicelive_out |-> TRUE,
      media_enable_voicelive_in  |-> TRUE,
      media_vl_in_start_frames   |-> 10,
      media_vl_in_start_rms      |-> 60,
      media_out_format           |-> "multi",
      call_timeout_sec           |-> 90,
      call_idle_timeout_sec      |-> 90 ]

\* A line on which the service sends no audio and the telephony peer nothing.
QuietLine ==
    [ output_rate |-> AssumedOutputRate,
      delta_bytes |-> {},
      max_deltas  |-> 0,
      messages    |-> {},
      max_messages |-> 0,
      max_send_errors |-> 0,
      ack_may_fail |-> FALSE,
      watcher_runs |-> 0,          \* iterations of _timeout_watcher within the run
      call_events |-> 0,           \* call-automation events the service posts
      hangup_may_fail |-> FALSE,   \* the hang-up request may raise
      close_calls |-> 0 ]          \* calls of close() by a user of the session

\* The ring in use: VoiceLiveSession._seg_queue, SpeechSession._seg_queue
\* (app2) or SpeechSession._rx_queue (app)
Capacity(c) == IF c.impl = "sdk" THEN SdkRingCapacity ELSE RingCapacity

\* The outbound side of the session after __init__ (voice_live.py:40-64,
\* app2/speech_session.py:22-24, app/speech_session.py:70-91), the metrics
\* of AppState.media it feeds, and a log of what went through it.
InitOut(c) ==
    [ seg_buffer          |-> <<>>,
      seg_queue           |-> <<>>,
      model_output_rate   |-> None,
      saw_format_update   |-> FALSE,
      resample_state      |-> 0,
      buffer_out          |-> <<>>,
      frame_bytes_dynamic |-> c.media_frame_bytes,
      outgoing_remainder  |-> <<>>,
      consumer_error |-> FALSE,
      out_dropped_frames  |-> 0,
      out_seg_queue_high_water |-> 0,
      log |-> [ deltas    |-> 0,      \* audio payloads received
                received  |-> 0,      \* bytes the service sent
                converted |-> 0,      \* bytes the resampler produced
                payload   |-> <<>>,   \* every byte handed to the segmenter, in order
                cut       |-> <<>>,   \* every byte cut into a frame, in order
                produced  |-> 0,      \* frames cut
                evicted   |-> 0,      \* frames removed from a full ring
                flushed   |-> 0,      \* frames removed by a barge-in
                flushed_seq |-> 0,    \* the newest frame a barge-in removed
                last      |-> [ created |-> 0, evicted |-> 0, before |-> 0 ] ] ]

\* _pacer (main.py:420-534) or outbound_loop (media_bridge.py) before it runs
InitPacer ==
    [ pc |-> "off", drained |-> 0, since_sleep |-> 0, errors |-> 0,
      last_sent |-> <<>>,
      wire |-> <<>>,  \* the messages the last frame sent went out as
      got |-> 0 ]     \* the last frame get_next_outbound_frame returned

\* The call as AppState.begin_call and the CallConnected event leave it
\* (state.py:121-132, main.py call_events): tracked, clocks at zero; the
\* session's receive loop is running and close() was never called.
InitCall ==
    [ active |-> TRUE, elapsed |-> 0, idle |-> 0, events |-> 0, end_reason |-> "",
      hung_up |-> FALSE, receiving |-> TRUE,
      close_calls |-> 0, conn_closes |-> 0 ]

\* AppState after __init__ (state.py:10-20, app2/state.py:7-13): no call
\* dict yet, counters at zero; snapshot() was not called.  The call dicts
\* live in a heap, so that two names for one dict are visible.
NoView == [ taken |-> FALSE, current |-> None, last |-> None, inFrames |-> 0 ]
InitAppState ==
    [ heap |-> <<>>, current_call |-> None, last_call |-> None, inFrames |-> 0,
      clock |-> 1, view |-> NoView, op |-> "", steps |-> 0 ]

\* The batching SpeechSession after __init__ (app/speech_session.py:92-102):
\* an empty input buffer, no flush task, _last_flush_monotonic = now.
\* timer[k] is a _flush_after_delay task; wire holds the append payloads in
\* the order the session handed them to the connection.
NoTimer == [ pc |-> "free", wake_at |-> 0, payload |-> <<>>, cancelled |-> FALSE ]
InitBatch ==
    [ input_buffer |-> <<>>, input_frames_buffered |-> 0, last_flush |-> 0,
      flush_task |-> 0, timer |-> [ k \in 1..MaxTimers |-> NoTimer ],
      sender |-> [ pc |-> "idle", payload |-> <<>> ],
      wire |-> <<>>, accepted |-> 0, clock |-> 0 ]

\* The module globals at start-up (main.py:111, app2/main.py:22):
\* no session object exists, no webhook request is being handled, the media
\* websocket was not requested. sessions[i] is the state of the i-th session
\* object created; session is the global, 0 for None; socket.speech is the
\* session media_websocket was called with.
NoHandler == [ pc |-> "idle", obj |-> 0 ]
InitHooks ==
    [ sessions |-> <<>>, session |-> 0,
      handler |-> [ h \in 1..MaxHandlers |-> NoHandler ],
      call_over |-> FALSE,
      socket |-> [ pc |-> "none", speech |-> 0, frames |-> 0 ],
      last_in |-> [ active |-> FALSE, to |-> 0 ] ]

RestInit ==
    /\ app_state = InitAppState
    /\ batch = InitBatch
    /\ hooks = InitHooks

\* The telephony websocket before it is accepted
InitMedia ==
    [ pc |-> "connecting", application_state |-> "CONNECTING", acks |-> 0, reads |-> 0,
      cause |-> "",
      registered |-> FALSE,       \* the socket is in _active_media_sockets
      upstream_active |-> FALSE,  \* AppState records the media websocket as connected
      audio_frames_non_silent |-> 0, rms_window |-> <<>>, vl_in_started |-> FALSE,
      forwarded |-> 0,
      last_in |-> [ kind |-> "", len |-> 0, forwarded |-> <<>>, bridging |-> FALSE,
                    outbound |-> "" ] ]

\* A barge-in that leaves the ring as it is, to compare against.
KeepQueue(o) ==
    o

\* voice_live.py:589-594: a barge-in empties the ring
FlushQueue(o) ==
    [ o EXCEPT !.seg_queue = <<>>,
               !.log.flushed = @ + Len(o.seg_queue),
               !.log.flushed_seq = IF o.seg_queue = <<>> THEN @
                                   ELSE o.seg_queue[Len(o.seg_queue)].seq ]

\* session.updated, voice_live.py:842-866: the output rate the service
\* announced (or the assumed one) and the mark that a format was seen
FormatUpdated(o, rate) ==
    [ o EXCEPT !.model_output_rate = IF rate = None THEN AssumedOutputRate ELSE rate,
               !.saw_format_update = TRUE ]

(***************************************************************************)
(* VoiceLiveSession.__init__ and connect(): the session as the two tasks   *)
(* first see it (websocket open, session.update sent, no format yet).      *)
(***************************************************************************)
\* _recompute_threshold: frames = max(1, ceil((adaptive + safety) / frame_ms_in))
ThresholdFrames(adaptive_ms, safety_ms) ==
    Max(1, (adaptive_ms + safety_ms + FrameMs - 1) \div FrameMs)

InitSession(c) ==
    [ closed                       |-> FALSE,
      input_format_ready           |-> FALSE,
      awaiting_commit_ack          |-> FALSE,
      staged_frames                |-> <<>>,
      in_frames_since_commit       |-> 0,
      in_ms_since_commit           |-> 0,
      adaptive_min_ms              |-> c.vl_input_min_ms,
      threshold_frames             |-> ThresholdFrames(c.vl_input_min_ms, c.vl_input_safety_ms),
      commit_cooldown_frames       |-> 0,
      commit_empty_errors          |-> 0,
      last_commit_ms               |-> 0,
      speech_detected              |-> FALSE,
      had_speech_since_last_commit |-> FALSE,
      silence_after_speech_ms      |-> 0,
      low_speech_block_count       |-> 0,
      commit_accum_speech_frames   |-> 0,
      noise_rms_samples            |-> <<>>,
      current_dynamic_threshold    |-> None,
      first_audio_monotonic        |-> None,
      bootstrap_deadline           |-> None,
      bootstrap_active             |-> TRUE,
      bootstrap_offset             |-> c.vl_bootstrap_rms_offset,
      last_decay_check_ms          |-> 0,
      response_active              |-> FALSE,
      current_burst_active         |-> FALSE,
      agent_burst_start_ms         |-> None,
      barge_in_triggered           |-> FALSE,
      barge_in_candidate_start_ms  |-> None,
      barge_in_last_trigger_ms     |-> 0,
      barge_in_frames              |-> 0,
      barge_in_release_counter     |-> 0 ]

(***************************************************************************)
(* send_input_audio_frame, the part that runs after the append was sent:   *)
(* counters, RMS voice-activity detection, barge-in, commit triggers.      *)
(***************************************************************************)
\* lines 360-378: frame counters, adaptive minimum, cooldown countdown
CountFrame(s, c) ==
    LET adaptive == Max(s.adaptive_min_ms, c.vl_input_min_ms) IN
    [ s EXCEPT
      !.in_frames_since_commit = @ + 1,
      !.in_ms_since_commit     = @ + FrameMs,
      !.adaptive_min_ms        = adaptive,
      !.threshold_frames       = ThresholdFrames(adaptive, c.vl_input_safety_ms),
      !.commit_cooldown_frames = IF @ > 0 THEN @ - 1 ELSE @ ]

RECURSIVE Insert(_, _)
Insert(x, seq) ==
    IF seq = <<>> THEN <<x>>
    ELSE IF x <= Head(seq) THEN <<x>> \o seq
    ELSE <<Head(seq)>> \o Insert(x, Tail(seq))

RECURSIVE Sorted(_)
Sorted(seq) ==
    IF seq = <<>> THEN <<>> ELSE Insert(Head(seq), Sorted(Tail(seq)))

\* lines 419-423: the median of the noise window, None when it is empty
NoiseFloor(samples) ==
    IF samples = <<>> THEN None
    ELSE Sorted(samples)[(Len(samples) \div 2) + 1]

\* The threshold left as computed, without the clamp.
Unclamped(dyn, c) ==
    dyn

\* lines 443-446: clamp into [dynamic_rms_min, dynamic_rms_max]
ClampThreshold(dyn, c) ==
    LET lo == IF dyn < c.vl_dynamic_rms_min THEN c.vl_dynamic_rms_min ELSE dyn IN
    IF lo > c.vl_dynamic_rms_max THEN c.vl_dynamic_rms_max ELSE lo

\* lines 412-457: dynamic thresholding and the speech-frame accumulator
VadDynamic(s, rms, t, c) ==
    LET base_ref == IF s.current_dynamic_threshold = None \/ s.current_dynamic_threshold = 0
                    THEN 500 ELSE s.current_dynamic_threshold
        low      == 10 * rms < 6 * base_ref
        grown    == Append(s.noise_rms_samples, rms)
        samples  == IF low
                    THEN (IF Len(grown) > NoiseWindow THEN Tail(grown) ELSE grown)
                    ELSE s.noise_rms_samples
        noise_floor == NoiseFloor(samples)
        has_deadline == s.bootstrap_active /\ s.bootstrap_deadline # None
        in_window   == has_deadline /\ t <= s.bootstrap_deadline
        boot_active == IF has_deadline /\ t > s.bootstrap_deadline THEN FALSE ELSE s.bootstrap_active
        offset0  == IF in_window THEN s.bootstrap_offset ELSE c.vl_dynamic_rms_offset
        decay_due == /\ boot_active
                     /\ ~s.had_speech_since_last_commit
                     /\ noise_floor # None
                     /\ (t - s.last_decay_check_ms) >= c.vl_offset_decay_interval_ms
        lowered  == decay_due /\ offset0 > c.vl_offset_decay_min
        offset1  == IF lowered THEN Max(c.vl_offset_decay_min, offset0 - c.vl_offset_decay_step)
                    ELSE offset0
        adjusted == IF noise_floor # None /\ noise_floor <= 5 THEN Min(offset1, 80) ELSE offset1
        dyn0     == IF noise_floor # None THEN noise_floor + adjusted ELSE adjusted
        dyn      == ClampThreshold(dyn0, c)
        speech   == rms >= dyn
    IN  [ s EXCEPT
          !.noise_rms_samples          = samples,
          !.bootstrap_active           = boot_active,
          !.last_decay_check_ms        = IF decay_due THEN t ELSE @,
          !.bootstrap_offset           = IF lowered THEN offset1 ELSE @,
          !.current_dynamic_threshold  = dyn,
          !.speech_detected            = speech,
          !.commit_accum_speech_frames = IF speech THEN @ + 1 ELSE @ ]

\* lines 403-481
Vad(s, rms, t, c) ==
    LET s1 == IF s.first_audio_monotonic = None
              THEN [ s EXCEPT !.first_audio_monotonic = t,
                              !.bootstrap_deadline = t + c.vl_bootstrap_duration_ms ]
              ELSE s
    IN  IF c.dynamic_rms_enabled
        THEN VadDynamic(s1, rms, t, c)
        ELSE [ s1 EXCEPT !.speech_detected = rms > StaticSpeechRms ]

\* A tracker that counts a silent frame twice, to compare against.
HastySpeechTrack(s) ==
    IF s.speech_detected
    THEN [ s EXCEPT !.had_speech_since_last_commit = TRUE,
                    !.silence_after_speech_ms = 0,
                    !.low_speech_block_count = 0 ]
    ELSE IF s.had_speech_since_last_commit /\ s.in_frames_since_commit > 0
    THEN [ s EXCEPT !.silence_after_speech_ms = @ + 2 * FrameMs ]
    ELSE s

\* lines 488-493: speech / trailing-silence progression
SpeechTrack(s) ==
    IF s.speech_detected
    THEN [ s EXCEPT !.had_speech_since_last_commit = TRUE,
                    !.silence_after_speech_ms = 0,
                    !.low_speech_block_count = 0 ]
    ELSE IF s.had_speech_since_last_commit /\ s.in_frames_since_commit > 0
    THEN [ s EXCEPT !.silence_after_speech_ms = @ + FrameMs ]
    ELSE s

(***************************************************************************)
(* Barge-in detector, lines 503-605                                        *)
(***************************************************************************)
\* A detector without the hard lock window, to compare against.
NoLock(agent_elapsed_ms, c) ==
    FALSE

\* lines 510-523: inside the hard lock window of the current agent burst
PassLock(agent_elapsed_ms, c) ==
    agent_elapsed_ms < c.vl_barge_in_lock_ms

\* lines 529-532, 540: 20*log10(max(rms,1)/noise) >= vl_barge_in_min_snr_db,
\* for the default 10 dB, i.e. (rms/noise)^2 >= 10
SnrOk(rms, approx_noise) ==
    Max(rms, 1) * Max(rms, 1) >= 10 * approx_noise * approx_noise

\* lines 603-605 (and 515-519, 557-559)
ResetCandidate(s) ==
    [ s EXCEPT !.barge_in_candidate_start_ms = None,
               !.barge_in_frames = 0,
               !.barge_in_release_counter = 0 ]

\* The trigger without its latch, to compare against.
FiresAgain(trigger_ready, s) ==
    trigger_ready

\* line 584: the trigger fires once per response
Fires(trigger_ready, s) ==
    trigger_ready /\ ~s.barge_in_triggered

\* lines 503-598: the detector up to and including the trigger's effects;
\* `fired` tells the caller that lines 599-605 are still to run.
BargeIn(s, rms, t, c) ==
    IF ~(c.vl_barge_in_enabled /\ (s.response_active \/ s.current_burst_active))
       \/ s.current_dynamic_threshold = None
    THEN [ s |-> s, evaluated |-> FALSE, locked |-> FALSE, fired |-> FALSE, elapsed |-> 0,
           ready |-> FALSE, below |-> FALSE, released |-> FALSE ]
    ELSE
    LET burst_start == IF s.agent_burst_start_ms = None THEN t ELSE s.agent_burst_start_ms
        agent_elapsed_ms == t - burst_start
        pass_lock == PassLock(agent_elapsed_ms, c)
        s0 == IF pass_lock /\ s.barge_in_candidate_start_ms # None
              THEN ResetCandidate(s) ELSE s
        approx_noise == Max(1, s.current_dynamic_threshold - c.vl_dynamic_rms_offset)
        abs_thresh   == Max(20, approx_noise + c.vl_barge_in_offset)
        \* effective_thresh = max(abs_thresh, 1.3 * approx_noise), in tenths
        eff10        == Max(10 * abs_thresh, 13 * approx_noise)
        above        == 10 * rms >= eff10
        snr_ok       == SnrOk(rms, approx_noise)
        below_release == 1000 * rms < 65 * eff10
        cooldown_ok  == (t - s.barge_in_last_trigger_ms) >= c.vl_barge_in_cooldown_ms
        grace_ok     == agent_elapsed_ms >= c.vl_barge_in_min_agent_ms
        abs_ok       == rms >= c.vl_barge_in_abs_min_rms
        candidate    == ~pass_lock /\ above /\ grace_ok /\ cooldown_ok /\ snr_ok /\ abs_ok
        s1 == IF candidate
              THEN IF s0.barge_in_candidate_start_ms = None
                   THEN [ s0 EXCEPT !.barge_in_candidate_start_ms = t, !.barge_in_frames = 1 ]
                   ELSE [ s0 EXCEPT !.barge_in_frames = @ + 1 ]
              ELSE IF s0.barge_in_candidate_start_ms # None
                   THEN IF below_release
                        THEN IF s0.barge_in_release_counter + 1 >= c.vl_barge_in_release_frames
                             THEN ResetCandidate(s0)
                             ELSE [ s0 EXCEPT !.barge_in_release_counter = @ + 1 ]
                        ELSE [ s0 EXCEPT !.barge_in_release_counter = IF @ > 0 THEN @ - 1 ELSE @ ]
                   ELSE [ s0 EXCEPT !.barge_in_frames = 0 ]
        user_ms == IF s1.barge_in_candidate_start_ms # None
                   THEN t - s1.barge_in_candidate_start_ms ELSE 0
        trigger_ready == /\ s1.barge_in_candidate_start_ms # None
                         /\ user_ms >= c.vl_barge_in_min_user_ms
                         /\ grace_ok /\ cooldown_ok /\ snr_ok /\ abs_ok
        fire == Fires(trigger_ready, s1)
        s2 == [ s1 EXCEPT !.agent_burst_start_ms = burst_start ]
        s3 == IF fire
              THEN [ s2 EXCEPT !.barge_in_triggered = TRUE,
                               !.barge_in_last_trigger_ms = t,
                               !.response_active = FALSE,
                               !.current_burst_active = FALSE ]
              ELSE s2
        released == /\ ~candidate /\ s0.barge_in_candidate_start_ms # None /\ below_release
                    /\ s0.barge_in_release_counter + 1 >= c.vl_barge_in_release_frames
    IN  [ s |-> s3, evaluated |-> TRUE, locked |-> pass_lock, fired |-> fire,
          elapsed |-> agent_elapsed_ms, ready |-> trigger_ready,
          below |-> below_release, released |-> released ]

\* The test of line 600 with a strict comparison.
BargeCommitWantsMore(s, c) ==
    s.commit_accum_speech_frames
        > Max(c.vl_bootstrap_min_speech_frames, c.vl_min_speech_frames)

\* line 600: enough local speech frames for an immediate barge-in commit
BargeCommitWanted(s, c) ==
    s.commit_accum_speech_frames
        >= Max(c.vl_bootstrap_min_speech_frames, c.vl_min_speech_frames)

(***************************************************************************)
(* Commit triggers and gates, lines 607-716                                *)
(***************************************************************************)
\* lines 672-676: the minimum-speech-frames gate blocks this commit
LowSpeechGate(s, trigger, c) ==
    /\ trigger # "max_buffer_safety"
    /\ c.vl_min_speech_frames > 0
    /\ s.commit_accum_speech_frames < c.vl_min_speech_frames

\* lines 689-692: escalation after repeated blocks with a large buffer
Escalates(s, c) ==
    /\ s.low_speech_block_count >= EscalationBlocks
    /\ s.in_ms_since_commit >= c.vl_max_buffer_ms

\* lines 607-716 up to the call of _commit_now: the new session state,
\* whether a commit is to be attempted and with which trigger
CommitEval(s, c) ==
    LET over_max == s.in_frames_since_commit > 0 /\ s.in_ms_since_commit >= c.vl_max_buffer_ms
        safety   == over_max /\ s.commit_accum_speech_frames > 0
        discard  == over_max /\ s.commit_accum_speech_frames = 0
        sA == IF discard
              THEN [ s EXCEPT !.in_frames_since_commit = 0,
                              !.in_ms_since_commit = 0,
                              !.commit_accum_speech_frames = 0 ]
              ELSE s
        timeout  == /\ ~safety
                    /\ c.no_speech_commit_ms > 0
                    /\ sA.in_frames_since_commit > 0
                    /\ sA.in_ms_since_commit >= c.no_speech_commit_ms
                    /\ \/ ~sA.had_speech_since_last_commit
                       \/ sA.low_speech_block_count >= c.no_speech_low_speech_blocks
        silence  == /\ ~safety /\ ~timeout
                    /\ sA.had_speech_since_last_commit
                    /\ sA.in_frames_since_commit > 0
                    /\ sA.silence_after_speech_ms >= c.vl_silence_commit_ms
        trigger0 == IF safety THEN "max_buffer_safety"
                    ELSE IF timeout THEN "no_speech_timeout"
                    ELSE IF silence THEN "silence_after_speech"
                    ELSE ""
        gated    == trigger0 # "" /\ LowSpeechGate(sA, trigger0, c)
        sG == IF gated THEN [ sA EXCEPT !.low_speech_block_count = @ + 1 ] ELSE sA
        escalate == gated /\ Escalates(sG, c)
        trigger1 == IF escalate THEN "low_speech_escalation"
                    ELSE IF gated THEN ""
                    ELSE trigger0
        short    == /\ trigger1 = "silence_after_speech"
                    /\ c.vl_commit_min_user_ms > 0
                    /\ sG.commit_accum_speech_frames * FrameMs < c.vl_commit_min_user_ms
        sM == IF short THEN [ sG EXCEPT !.silence_after_speech_ms = 0 ] ELSE sG
    IN  [ s |-> sM,
          trigger |-> IF short THEN "" ELSE trigger1,
          gated |-> gated,
          discarded |-> discard,
          raised |-> trigger0,
          bootstrap |-> trigger0 # "" /\ sA.bootstrap_active,
          blocks_before |-> s.low_speech_block_count,
          buffered_ms |-> s.in_ms_since_commit ]

(***************************************************************************)
(* _commit_now, lines 721-803                                              *)
(***************************************************************************)
FlushTriggers == {"max_buffer_safety", "no_speech_timeout", "low_speech_escalation"}

\* A _commit_now without the universal guard, to compare against.
NoGuard(s, trigger) ==
    FALSE

\* lines 729-738: the universal no-speech guard refuses this commit
UniversalGuard(s, trigger) ==
    s.commit_accum_speech_frames = 0 /\ trigger \notin FlushTriggers

\* lines 723-728: a commit is outstanding or the cooldown is running
CommitBlocked(s) ==
    s.awaiting_commit_ack \/ s.commit_cooldown_frames > 0

\* lines 723-738: _commit_now goes on to send the commit
CommitAllowed(s, trigger) ==
    ~CommitBlocked(s) /\ ~UniversalGuard(s, trigger)

\* lines 741-803: what _commit_now does after `await ws.send(commit)` returns
AfterCommitSent(s, t) ==
    [ s EXCEPT
      !.last_commit_ms               = t,
      !.awaiting_commit_ack          = TRUE,
      !.in_frames_since_commit       = 0,
      !.in_ms_since_commit           = 0,
      !.speech_detected              = FALSE,
      !.had_speech_since_last_commit = FALSE,
      !.silence_after_speech_ms      = 0,
      !.commit_accum_speech_frames   = 0 ]

(***************************************************************************)
(* send_input_audio_frame, entry (lines 289-309, 358-359)                  *)
(***************************************************************************)
NoFrame == [ id |-> 0, rms |-> 0 ]
Idle == [ pc |-> "idle", frame |-> NoFrame ]

\* lines 302-309: the frame goes to the staging buffer instead of the wire
Stages(s) == s.awaiting_commit_ack

\* What the entry does with frame f: returns at once (inactive, or no format
\* negotiated yet), stages f, or sends it as input_audio_buffer.append.
Entry(s, f) ==
    IF s.closed \/ ~s.input_format_ready
    THEN [ s |-> s, sent |-> FALSE ]
    ELSE IF Stages(s)
    THEN [ s |-> [ s EXCEPT !.staged_frames = Append(@, f) ], sent |-> FALSE ]
    ELSE [ s |-> s, sent |-> TRUE ]

\* receive_loop lines 1050-1052: `for fr in frames_to_send: await
\* self.send_input_audio_frame(fr)`, run until a frame's append suspends the
\* task or the list is used up.
RECURSIVE ReplayLoop(_, _)
ReplayLoop(s, q) ==
    IF q = <<>>
    THEN [ s |-> s, q |-> <<>>, pc |-> "idle", frame |-> NoFrame ]
    ELSE LET e == Entry(s, Head(q)) IN
         IF e.sent
         THEN [ s |-> e.s, q |-> Tail(q), pc |-> "append", frame |-> Head(q) ]
         ELSE ReplayLoop(e.s, Tail(q))

BumpSinceEmpty(sent) ==
    IF sent /\ since_empty # None THEN since_empty + 1 ELSE since_empty

\* The receive loop runs the replay of the frames q from session state s.
Replay(s, q) ==
    LET r == ReplayLoop(s, q) IN
    /\ vl' = r.s
    /\ frames_to_send' = r.q
    /\ task' = [ task EXCEPT !["recv"] = [ pc |-> r.pc, frame |-> r.frame ] ]
    /\ appended' = IF r.pc = "append" THEN Append(appended, r.frame.id) ELSE appended
    /\ since_empty' = BumpSinceEmpty(r.pc = "append")

\* send_input_audio_frame returns in task t with session state s: the intake
\* task goes back to reading the media socket, the receive loop goes on with
\* the frames it is replaying.
Return(t, s) ==
    IF t = "recv"
    THEN Replay(s, frames_to_send)
    ELSE /\ vl' = s
         /\ task' = [ task EXCEPT ![t] = Idle ]
         /\ UNCHANGED <<frames_to_send, appended, since_empty>>

\* `await self._ws.send(commit)` (line 740): the commit is on the wire and task
\* t is suspended inside _commit_now, at pc `at`.
SendCommit(t, s, trigger, at) ==
    /\ vl' = s
    /\ pending_acks' = pending_acks + 1
    /\ last_commit' = [ trigger       |-> trigger,
                        speech_frames |-> s.commit_accum_speech_frames,
                        in_ms         |-> s.in_ms_since_commit,
                        threshold_ms  |-> s.adaptive_min_ms + cfg.vl_input_safety_ms,
                        since_empty   |-> since_empty,
                        unacked       |-> pending_acks ]
    /\ task' = [ task EXCEPT ![t] = [ pc |-> at, frame |-> NoFrame ] ]
    /\ since_empty' = None
    /\ UNCHANGED <<frames_to_send, appended>>

NoEval ==
    [ rms |-> 0, evaluated |-> FALSE, locked |-> FALSE, fired |-> FALSE, elapsed |-> 0,
      gated |-> FALSE, discarded |-> FALSE, blocks_before |-> 0, buffered_ms |-> 0,
      could_commit |-> FALSE, guarded |-> "", trigger |-> "", speech_frames |-> 0,
      raised |-> "", bootstrap |-> FALSE, released |-> FALSE, quiet_run |-> 0,
      ready |-> FALSE ]

(***************************************************************************)
(* The media intake task (src/app/main.py:696-736): one frame of the       *)
(* inbound stream is passed to send_input_audio_frame.                     *)
(***************************************************************************)
\* The energy of frame i of a scripted call: the script is a list of
\* stretches, n frames of one energy each.
RECURSIVE ScriptRms(_, _)
ScriptRms(script, i) ==
    IF script = <<>> THEN 0
    ELSE IF i <= Head(script).n THEN Head(script).rms
    ELSE ScriptRms(Tail(script), i - Head(script).n)

\* A scripted call sends its frames to a session that is ready, one every
\* tick_ms.
Scripted == env.script # <<>>
FrameDue == Scripted => (vl.input_format_ready /\ now = ClockStart + submitted * env.tick_ms)
Levels == IF Scripted THEN { ScriptRms(env.script, submitted + 1) } ELSE env.levels

SubmitFrame ==
    /\ task["intake"].pc = "idle"
    /\ submitted < env.max_frames
    /\ FrameDue
    /\ \E rms \in Levels :
         LET f == [ id |-> submitted + 1, rms |-> rms ]
             e == Entry(vl, f)
         IN  /\ vl' = e.s
             /\ task' = [ task EXCEPT !["intake"] =
                            IF e.sent THEN [ pc |-> "append", frame |-> f ] ELSE Idle ]
             /\ appended' = IF e.sent THEN Append(appended, f.id) ELSE appended
             /\ since_empty' = BumpSinceEmpty(e.sent)
    /\ submitted' = submitted + 1
    /\ UNCHANGED <<call, rest, bcfg, benv, out, pacer, media, cfg, env, now, frames_to_send, pending_acks, last_commit, last_eval, service>>

(***************************************************************************)
(* send_input_audio_frame resumes in task t after `await ws.send(append)`  *)
(* (line 359) and runs lines 360-716 up to the next await or its return.   *)
(***************************************************************************)
\* lines 599-716 and _commit_now up to its await, for frame f in task t: s1 is
\* the session after detection (line 493), b the barge-in outcome and e the
\* outcome of the commit triggers.
Decide(t, f, s1, b, e) ==
    LET barge_commit == /\ b.fired
                        /\ BargeCommitWanted(b.s, cfg)
                        /\ CommitAllowed(b.s, "barge_in")
        main_commit == e.trigger # "" /\ CommitAllowed(e.s, e.trigger)
        barge_guarded == /\ b.fired
                         /\ BargeCommitWanted(b.s, cfg)
                         /\ ~CommitBlocked(b.s)
                         /\ UniversalGuard(b.s, "barge_in")
        main_guarded == /\ ~barge_commit
                        /\ e.trigger # ""
                        /\ ~CommitBlocked(e.s)
                        /\ UniversalGuard(e.s, e.trigger)
    IN  /\ last_eval' =
             [ rms           |-> f.rms,
               evaluated     |-> b.evaluated,
               locked        |-> b.locked,
               fired         |-> b.fired,
               elapsed       |-> b.elapsed,
               gated         |-> (~barge_commit) /\ e.gated,
               discarded     |-> (~barge_commit) /\ e.discarded,
               blocks_before |-> e.blocks_before,
               buffered_ms   |-> s1.in_ms_since_commit,
               could_commit  |-> ~CommitBlocked(s1),
               guarded       |-> IF barge_guarded THEN "barge_in"
                                 ELSE IF main_guarded THEN e.trigger ELSE "",
               trigger       |-> IF barge_commit THEN "barge_in"
                                 ELSE IF main_commit THEN e.trigger ELSE "",
               speech_frames |-> b.s.commit_accum_speech_frames,
               released      |-> b.released,
               quiet_run     |-> IF b.below
                                 THEN Min(last_eval.quiet_run + 1, cfg.vl_barge_in_release_frames)
                                 ELSE 0,
               raised        |-> IF barge_commit THEN "" ELSE e.raised,
               bootstrap     |-> (~barge_commit) /\ e.bootstrap,
               ready         |-> b.ready ]
        /\ out' = IF b.fired THEN FlushQueue(out) ELSE out
        /\ IF barge_commit
           THEN SendCommit(t, b.s, "barge_in", "commit_barge")
           ELSE IF main_commit
           THEN SendCommit(t, e.s, e.trigger, "commit")
           ELSE Return(t, e.s) /\ UNCHANGED <<pending_acks, last_commit>>

\* lines 602-716 after the barge-in detector returned b
AfterBargeIn(t, f, s1, b) ==
    Decide(t, f, s1, b, CommitEval(IF b.fired THEN ResetCandidate(b.s) ELSE b.s, cfg))

\* lines 503-716 after detection left the session in s1
AfterDetection(t, f, s1) ==
    AfterBargeIn(t, f, s1, BargeIn(s1, f.rms, now, cfg))

ResumeAppend(t) ==
    /\ task[t].pc = "append"
    /\ AfterDetection(t, task[t].frame,
                      SpeechTrack(Vad(CountFrame(vl, cfg), task[t].frame.rms, now, cfg)))
    /\ UNCHANGED <<call, rest, bcfg, benv, pacer, media, cfg, env, now, submitted, service>>

\* _commit_now resumes after `await ws.send(commit)` when it was called from
\* the barge-in trigger (line 601): lines 741-803, then 602-716.
ResumeBargeCommit(t) ==
    /\ task[t].pc = "commit_barge"
    /\ LET s1 == ResetCandidate(AfterCommitSent(vl, now))
           e  == CommitEval(s1, cfg)
       IN  IF e.trigger # "" /\ CommitAllowed(e.s, e.trigger)
           THEN SendCommit(t, e.s, e.trigger, "commit")
           ELSE Return(t, e.s) /\ UNCHANGED <<pending_acks, last_commit>>
    /\ UNCHANGED <<call, rest, bcfg, benv, out, pacer, media, cfg, env, now, submitted, last_eval, service>>

\* _commit_now resumes after `await ws.send(commit)` when it was called from
\* line 716: lines 741-803, then send_input_audio_frame returns.
ResumeCommit(t) ==
    /\ task[t].pc = "commit"
    /\ Return(t, AfterCommitSent(vl, now))
    /\ UNCHANGED <<call, rest, bcfg, benv, out, pacer, media, cfg, env, now, submitted, pending_acks, last_commit, last_eval, service>>

(***************************************************************************)
(* receive_loop: one action per event type, lines 810-1070                 *)
(***************************************************************************)
RecvReady == task["recv"].pc = "idle" /\ ~vl.closed

\* session.updated, lines 831-891
RecvSessionUpdated ==
    /\ RecvReady
    /\ bcfg.impl = "app"
    /\ vl' = [ vl EXCEPT !.input_format_ready = TRUE,
                         !.threshold_frames =
                             ThresholdFrames(vl.adaptive_min_ms, cfg.vl_input_safety_ms) ]
    /\ out' = FormatUpdated(out, benv.output_rate)
    /\ UNCHANGED <<call, rest, bcfg, benv, pacer, media, cfg, env, now, task, frames_to_send, submitted, appended, pending_acks,
                   last_commit, last_eval, since_empty, service>>

\* response.audio.delta / response.content_part.added / response.output_item.added,
\* lines 939-944
ResponseStarted(s, t) ==
    [ s EXCEPT !.response_active = TRUE,
               !.current_burst_active = TRUE,
               !.agent_burst_start_ms = IF @ = None THEN t ELSE @ ]

RecvResponseStarted ==
    /\ RecvReady
    /\ service.open \/ service.started < env.max_responses
    /\ vl' = ResponseStarted(vl, now)
    /\ service' = [ service EXCEPT
                      !.started = IF service.open THEN service.started ELSE service.started + 1,
                      !.open    = TRUE ]
    /\ UNCHANGED <<call, rest, bcfg, benv, out, pacer, media, cfg, env, now, task, frames_to_send, submitted, appended, pending_acks,
                   last_commit, last_eval, since_empty>>

\* response.audio.done / response.done, lines 945-955
ResponseDone(s) ==
    ResetCandidate([ s EXCEPT !.current_burst_active = FALSE,
                              !.response_active = FALSE,
                              !.agent_burst_start_ms = None,
                              !.barge_in_triggered = FALSE ])

RecvResponseDone ==
    /\ RecvReady
    /\ service.open \/ service.refused
    /\ vl' = ResponseDone(vl)
    /\ service' = [ service EXCEPT !.open = FALSE, !.refused = FALSE, !.recreated = FALSE ]
    /\ UNCHANGED <<call, rest, bcfg, benv, out, pacer, media, cfg, env, now, task, frames_to_send, submitted, appended, pending_acks,
                   last_commit, last_eval, since_empty>>

\* The raise without its cap, to compare against.
UncappedAdaptiveMin(adaptive_ms) ==
    adaptive_ms + Max(FrameMs, 20)

\* lines 988-992: the adaptive minimum after a commit_empty error
RaisedAdaptiveMin(adaptive_ms) ==
    LET raised == adaptive_ms + Max(FrameMs, 20) IN
    IF raised > AdaptiveCapMs THEN AdaptiveCapMs ELSE raised

\* error with code input_audio_buffer_commit_empty, lines 977-1008
CommitEmpty(s, c) ==
    LET adaptive == RaisedAdaptiveMin(s.adaptive_min_ms) IN
    [ s EXCEPT
      !.commit_empty_errors    = @ + 1,
      !.awaiting_commit_ack    = FALSE,
      !.adaptive_min_ms        = adaptive,
      !.threshold_frames       = ThresholdFrames(adaptive, c.vl_input_safety_ms),
      !.in_frames_since_commit = 0,
      !.in_ms_since_commit     = 0,
      !.commit_cooldown_frames = Max(@, CooldownFrames) ]

RecvCommitEmpty ==
    /\ RecvReady
    /\ pending_acks > 0
    /\ vl' = CommitEmpty(vl, cfg)
    /\ pending_acks' = pending_acks - 1
    /\ since_empty' = 0
    /\ UNCHANGED <<call, rest, bcfg, benv, out, pacer, media, cfg, env, now, task, frames_to_send, submitted, appended,
                   last_commit, last_eval, service>>

\* error with code conversation_already_has_active_response, lines 1009-1010
ActiveResponseError(s) ==
    [ s EXCEPT !.response_active = TRUE ]

\* The service refuses a response.create that the session sent, because a
\* response is still active on its side.
RecvActiveResponseError ==
    /\ RecvReady
    /\ service.created
    /\ ~service.refused
    /\ vl' = ActiveResponseError(vl)
    /\ service' = [ service EXCEPT !.refused = TRUE ]
    /\ UNCHANGED <<call, rest, bcfg, benv, out, pacer, media, cfg, env, now, task, frames_to_send, submitted, appended, pending_acks,
                   last_commit, last_eval, since_empty>>

\* lines 1032-1038: input_audio_buffer.committed is answered with an automatic
\* response.create
AutoResponse(s, c) ==
    /\ c.auto_response_on_commit
    /\ ~s.response_active
    /\ ~s.current_burst_active
    /\ c.commit_response_instructions

\* What the service has seen after the committed acknowledgement was handled.
Requested(sv, s, c) ==
    IF AutoResponse(s, c)
    THEN [ sv EXCEPT !.created = TRUE, !.recreated = sv.refused ]
    ELSE sv

\* lines 1032-1033, 1043: the conditions under which the staged frames are
\* flushed when input_audio_buffer.committed arrives
FlushesStaged(s, c) ==
    /\ c.auto_response_on_commit
    /\ ~s.response_active
    /\ ~s.current_burst_active
    /\ s.staged_frames # <<>>

\* input_audio_buffer.committed, lines 1012-1052
RecvCommitted ==
    /\ RecvReady
    /\ pending_acks > 0
    /\ pending_acks' = pending_acks - 1
    /\ LET s1 == [ vl EXCEPT !.awaiting_commit_ack = FALSE ] IN
       IF FlushesStaged(s1, cfg)
       THEN Replay([ s1 EXCEPT !.staged_frames = <<>> ], s1.staged_frames)
       ELSE /\ vl' = s1
            /\ UNCHANGED <<task, frames_to_send, appended, since_empty>>
    /\ service' = Requested(service, vl, cfg)
    /\ UNCHANGED <<call, rest, bcfg, benv, out, pacer, media, cfg, env, now, submitted, last_commit, last_eval>>

\* close(): the session is inactive from here on (voice_live.py:1078-1082,
\* app2/speech_session.py:81-85, app/speech_session.py:199-200)
Closed(s) ==
    [ s EXCEPT !.closed = TRUE ]

\* What one call of close() does to the connection underneath.
\* VoiceLiveSession.close returns at once when _closed is set and closes the
\* websocket otherwise (voice_live.py:1078-1087); close of app2's
\* SpeechSession has the same guard and no connection to close
\* (app2/speech_session.py:81-90); close of app/speech_session.py has no
\* guard and leaves the connection through __aexit__ on every call
\* (lines 199-216).
CloseCalled(c, s, impl) ==
    [ c EXCEPT !.close_calls = @ + 1,
               !.conn_closes = IF impl = "sdk" THEN @ + 1
                               ELSE IF impl = "app" /\ ~s.closed THEN @ + 1
                               ELSE @ ]

\* The websocket ends (peer close or error): receive_loop leaves its
\* `async for` and its finally clause calls close(), lines 1071-1088.
RecvConnectionLost ==
    /\ RecvReady
    /\ bcfg.impl = "app"
    /\ call.receiving
    /\ vl' = Closed(vl)
    /\ call' = [ CloseCalled(call, vl, bcfg.impl) EXCEPT !.receiving = FALSE ]
    /\ UNCHANGED <<rest, bcfg, benv, out, pacer, media, cfg, env, now, task, frames_to_send, submitted, appended, pending_acks,
                   last_commit, last_eval, since_empty, service>>

\* Time passes on the event loop's clock.
Tick ==
    /\ now < ClockStart + env.max_ticks * env.tick_ms
    /\ Scripted => (task["intake"].pc = "idle" /\ now < ClockStart + submitted * env.tick_ms)
    /\ now' = now + env.tick_ms
    /\ UNCHANGED <<call, rest, bcfg, benv, out, pacer, media, cfg, env, vl, task, frames_to_send, submitted, appended, pending_acks,
                   last_commit, last_eval, since_empty, service>>

(***************************************************************************)
(* Specification                                                           *)
(***************************************************************************)
\* Nothing asked of the service and nothing started by it.
InitService ==
    [ started |-> 0, open |-> FALSE, created |-> FALSE, refused |-> FALSE,
      recreated |-> FALSE ]

NoCommit ==
    [ trigger |-> "", speech_frames |-> 0, in_ms |-> 0, threshold_ms |-> 0,
      since_empty |-> None, unacked |-> 0 ]

InitWith(configs, world) ==
    /\ cfg \in configs
    /\ env = world
    /\ vl = InitSession(cfg)
    /\ now = ClockStart
    /\ task = [ t \in Tasks |-> Idle ]
    /\ frames_to_send = <<>>
    /\ submitted = 0
    /\ appended = <<>>
    /\ pending_acks = 0
    /\ last_commit = NoCommit
    /\ last_eval = NoEval
    /\ since_empty = None
    /\ service = InitService
    /\ bcfg = DefaultBridgeCfg
    /\ benv = QuietLine
    /\ out = InitOut(bcfg)
    /\ pacer = InitPacer
    /\ media = InitMedia
    /\ call = InitCall
    /\ RestInit

\* Configurations other than the scaled defaults: a configured minimum just
\* below and one above the 300 ms cap of the adaptive minimum; static RMS
\* detection with the speech-frame gates switched off; no auto response.
NearCapCfg == [ ScaledCfg EXCEPT !.vl_input_min_ms = 290 ]
AboveCapCfg == [ ScaledCfg EXCEPT !.vl_input_min_ms = 400 ]
UngatedCfg ==
    [ ScaledCfg EXCEPT !.dynamic_rms_enabled = FALSE,
                       !.vl_min_speech_frames = 0,
                       !.vl_commit_min_user_ms = 0 ]
NoAutoResponseCfg == [ ScaledCfg EXCEPT !.auto_response_on_commit = FALSE ]
\* No barge-in cooldown and no hard lock: the trigger conditions can be met
\* again shortly after a barge-in.
EagerBargeInCfg ==
    [ ScaledCfg EXCEPT !.vl_barge_in_cooldown_ms = 0, !.vl_barge_in_lock_ms = 0 ]
\* Threshold ranges that the noise floor plus the offset falls outside of:
\* a ceiling below it and a floor above it.
LowCeilingCfg == [ ScaledCfg EXCEPT !.vl_dynamic_rms_max = 60 ]
HighFloorCfg == [ ScaledCfg EXCEPT !.vl_dynamic_rms_min = 400 ]

\* The runs explored: which configurations, how many frames of which
\* energies the caller sends, how far the clock moves and in which steps, how
\* many responses the service starts.
Interleaved ==
    [ configs |-> { ScaledCfg },
      world   |-> [ script |-> <<>>, max_frames |-> MaxFrames, levels |-> RmsLevels,
                    max_ticks |-> 0, tick_ms |-> FrameMs,
                    max_responses |-> MaxResponses ] ]
Barging ==
    [ configs |-> { ScaledCfg },
      world   |-> [ script |-> <<>>, max_frames |-> BargeFrames, levels |-> RmsLevels,
                    max_ticks |-> MaxTicks, tick_ms |-> FrameMs,
                    max_responses |-> MaxResponses ] ]
LongRun ==
    [ configs |-> { ScaledCfg, NearCapCfg, AboveCapCfg },
      world   |-> [ script |-> <<>>, max_frames |-> LongRunFrames, levels |-> { 3000 },
                    max_ticks |-> 0, tick_ms |-> FrameMs,
                    max_responses |-> 0 ] ]
Stalled ==
    [ configs |-> { ScaledCfg },
      world   |-> [ script |-> <<>>, max_frames |-> VariantFrames + 1, levels |-> { 3000 },
                    max_ticks |-> MaxTicks, tick_ms |-> 10 * FrameMs,
                    max_responses |-> 0 ] ]
Variants ==
    [ configs |-> { UngatedCfg, NoAutoResponseCfg },
      world   |-> [ script |-> <<>>, max_frames |-> VariantFrames, levels |-> RmsLevels,
                    max_ticks |-> 0, tick_ms |-> FrameMs,
                    max_responses |-> 0 ] ]

Clamping ==
    [ configs |-> { LowCeilingCfg, HighFloorCfg },
      world   |-> [ script |-> <<>>, max_frames |-> BargeFrames, levels |-> RmsLevels,
                    max_ticks |-> MaxTicks, tick_ms |-> FrameMs,
                    max_responses |-> 0 ] ]

\* Loud frames only, with the clock moving and a response: a commit, its
\* rejection as empty and a barge-in while the cooldown is still running.
Cooling ==
    [ configs |-> { ScaledCfg },
      world   |-> [ script |-> <<>>, max_frames |-> MaxFrames, levels |-> { 3000 },
                    max_ticks |-> MaxTicks, tick_ms |-> FrameMs,
                    max_responses |-> MaxResponses ] ]

\* Instructions for the automatic response.create are configured, and the
\* barge-in windows are as short as they can be.
InstructedCfg ==
    [ ScaledCfg EXCEPT !.commit_response_instructions = TRUE,
                       !.vl_barge_in_cooldown_ms = 0,
                       !.vl_barge_in_lock_ms = 0,
                       !.vl_barge_in_min_agent_ms = 0 ]
Refusing ==
    [ configs |-> { InstructedCfg },
      world   |-> [ script |-> <<>>, max_frames |-> MaxFrames, levels |-> { 3000 },
                    max_ticks |-> RefusalTicks, tick_ms |-> FrameMs,
                    max_responses |-> 0 ] ]

Retrigger ==
    [ configs |-> { EagerBargeInCfg },
      world   |-> [ script |-> <<>>, max_frames |-> VariantFrames, levels |-> { 3000 },
                    max_ticks |-> MaxTicks, tick_ms |-> FrameMs,
                    max_responses |-> MaxResponses ] ]

\* The call of the silence-then-speech scenario, with the default settings: a
\* second of silence, 800 ms of speech at RMS 1500, then silence, a frame
\* every 20 ms.
SilenceThenSpeech ==
    << [ n |-> 50, rms |-> 0 ], [ n |-> 40, rms |-> 1500 ], [ n |-> ScenarioTail, rms |-> 0 ] >>
Scenario ==
    [ configs |-> { DefaultCfg },
      world   |-> [ script |-> SilenceThenSpeech,
                    max_frames |-> 50 + 40 + ScenarioTail, levels |-> {},
                    max_ticks |-> 50 + 40 + ScenarioTail, tick_ms |-> FrameMs,
                    max_responses |-> 0 ] ]

\* The caller talks over the agent with pauses: frames well above the
\* barge-in threshold and frames below its release threshold.
Releasing ==
    [ configs |-> { EagerBargeInCfg },
      world   |-> [ script |-> <<>>, max_frames |-> ReleaseFrames, levels |-> { 10, 3000 },
                    max_ticks |-> RefusalTicks, tick_ms |-> FrameMs,
                    max_responses |-> MaxResponses ] ]

Runs == { Interleaved, Barging, LongRun, Stalled, Variants, Clamping, Cooling, Retrigger, Refusing,
          Scenario, Releasing }

Init == \E run \in Runs : InitWith(run.configs, run.world)

Next ==
    \/ SubmitFrame
    \/ \E t \in Tasks : ResumeAppend(t)
    \/ \E t \in Tasks : ResumeBargeCommit(t)
    \/ \E t \in Tasks : ResumeCommit(t)
    \/ RecvSessionUpdated
    \/ RecvResponseStarted
    \/ RecvResponseDone
    \/ RecvCommitEmpty
    \/ RecvCommitted
    \/ RecvActiveResponseError
    \/ RecvConnectionLost
    \/ Tick

Spec == Init /\ [][Next]_vars

(***************************************************************************)
(* Outbound audio, form "app": VoiceLiveSession cuts the service's audio    *)
(* deltas into frames (voice_live.py:911-935, 1149-1198) and _pacer sends   *)
(* them to the telephony socket (main.py:420-534).                          *)
(***************************************************************************)
\* audioop.ratecv(pcm, 2, 1, src, dst, state) on n bytes: it refuses a length
\* that is no whole number of samples; the output has one sample per src/dst
\* input samples, the fraction carried in the state.
Resampled(n, src, dst, carry) ==
    [ ok    |-> n % 2 = 0,
      bytes |-> 2 * ((carry + (n \div 2) * dst) \div src),
      carry |-> (carry + (n \div 2) * dst) % src ]

\* voice_live.py:913-933: the bytes of an n-byte delta that go on to
\* _enqueue_pcm, resampled once a format update was seen and the rate differs
DeltaPcm(o, n) ==
    IF (IF o.model_output_rate = None THEN AssumedOutputRate ELSE o.model_output_rate)
           # TargetRate
       /\ o.saw_format_update
    THEN IF n % 2 = 0
         THEN [ o   |-> [ o EXCEPT
                          !.resample_state = Resampled(n, o.model_output_rate, TargetRate, @).carry,
                          !.log.deltas = @ + 1,
                          !.log.received = @ + n,
                          !.log.converted =
                              @ + Resampled(n, o.model_output_rate, TargetRate, o.resample_state).bytes ],
                pcm |-> Run("converted", o.log.converted + 1,
                            Resampled(n, o.model_output_rate, TargetRate, o.resample_state).bytes) ]
         ELSE [ o |-> [ o EXCEPT !.log.deltas = @ + 1, !.log.received = @ + n ],
                pcm |-> <<>> ]
    ELSE [ o |-> [ o EXCEPT !.log.deltas = @ + 1, !.log.received = @ + n ],
           pcm |-> Run("pcm", o.log.received + 1, n) ]

\* A loop turn that queues without making room, to compare against.
PutFrameUnbounded(o, fb, cap) ==
    [ o EXCEPT
      !.seg_buffer = Drop(@, fb),
      !.seg_queue  = Append(@, [ seq |-> o.log.produced + 1, bytes |-> Take(o.seg_buffer, fb) ]),
      !.log.cut      = Extend(@, Take(o.seg_buffer, fb)),
      !.log.produced = @ + 1,
      !.log.last.created = @ + 1 ]

\* One turn of the loop at voice_live.py:1174-1184 (app2/speech_session.py:
\* 117-124, voice_live_ga.py:212-224): cut a frame, make room, queue it
PutFrame(o, fb, cap) ==
    [ o EXCEPT
      !.seg_buffer = Drop(@, fb),
      !.seg_queue  = Append(IF Len(@) >= cap THEN Tail(@) ELSE @,
                            [ seq |-> o.log.produced + 1, bytes |-> Take(o.seg_buffer, fb) ]),
      !.log.cut      = Extend(@, Take(o.seg_buffer, fb)),
      !.log.produced = @ + 1,
      !.log.evicted  = IF Len(o.seg_queue) >= cap THEN @ + 1 ELSE @,
      !.log.last.created = @ + 1,
      !.log.last.evicted = IF Len(o.seg_queue) >= cap THEN @ + 1 ELSE @ ]

\* A segmenter that also queues what is left as a short frame, to compare
\* against.
RECURSIVE SegmentAll(_, _, _)
SegmentAll(o, fb, cap) ==
    IF o.seg_buffer = <<>> THEN o ELSE SegmentAll(PutFrame(o, fb, cap), fb, cap)

\* `while len(self._seg_buffer) >= frame_size`
RECURSIVE Segment(_, _, _)
Segment(o, fb, cap) ==
    IF ByteLen(o.seg_buffer) < fb THEN o ELSE Segment(PutFrame(o, fb, cap), fb, cap)

\* A segmenter that starts each payload with an empty assembly buffer, to
\* compare against.
Rebuffered(o, pcm) ==
    [ o EXCEPT !.seg_buffer  = pcm,
               !.log.payload = Extend(@, pcm),
               !.log.last    = [ created |-> 0, evicted |-> 0, before |-> Len(o.seg_queue) ] ]

\* voice_live.py:1168-1169 (and the start of the two other segmenters): the
\* payload joins the assembly buffer
Buffered(o, pcm) ==
    [ o EXCEPT !.seg_buffer  = Extend(@, pcm),
               !.log.payload = Extend(@, pcm),
               !.log.last    = [ created |-> 0, evicted |-> 0, before |-> Len(o.seg_queue) ] ]

\* voice_live.py:1190-1198: seg_dropped is a flag, so one drop is counted per
\* payload; then the high-water mark
Counted(o) ==
    [ o EXCEPT !.out_dropped_frames = IF o.log.last.evicted > 0 THEN @ + 1 ELSE @,
               !.out_seg_queue_high_water = Max(@, Len(o.seg_queue)) ]

\* VoiceLiveSession._enqueue_pcm
EnqueuePcm(o, pcm, c) ==
    Counted(Segment(Buffered(o, pcm), c.media_frame_bytes, RingCapacity))

\* voice_live.py:934-935: `if pcm: await self._enqueue_pcm(pcm)`
Enqueued(d, c) ==
    IF d.pcm = <<>> THEN d.o ELSE EnqueuePcm(d.o, d.pcm, c)

RecvReadyFor(impl) == bcfg.impl = impl /\ RecvReady

\* response.audio.delta with an audio payload of n bytes, voice_live.py:911-944
RecvAudioDelta ==
    /\ RecvReadyFor("app")
    /\ out.log.deltas < benv.max_deltas
    /\ \E n \in benv.delta_bytes : out' = Enqueued(DeltaPcm(out, n), bcfg)
    /\ vl' = ResponseStarted(vl, now)
    /\ UNCHANGED <<steady, bcfg, benv, pacer, media>>

\* The barge-in trigger of send_input_audio_frame fires (voice_live.py:584-594,
\* 602-605; lines 503-583 decide on which frame): the response is taken to be
\* over and the ring is emptied.
BargeInFlush ==
    /\ bcfg.impl = "app"
    /\ ~vl.closed /\ vl.input_format_ready
    /\ vl.response_active \/ vl.current_burst_active
    /\ ~vl.barge_in_triggered
    /\ vl' = ResetCandidate([ vl EXCEPT !.barge_in_triggered = TRUE,
                                        !.barge_in_last_trigger_ms = now,
                                        !.response_active = FALSE,
                                        !.current_burst_active = FALSE ])
    /\ out' = FlushQueue(out)
    /\ UNCHANGED <<steady, bcfg, benv, pacer, media>>

\* One frame handed to the telephony socket by the sending task p: it arrives
\* (ok) or the send raises.  _pacer sends to the sockets that are open
\* (main.py:466-486); with none, or without media_bidirectional, nothing is sent.
Delivered(p, f, ok) ==
    IF ok
    THEN [ p EXCEPT !.since_sleep = @ + 1, !.last_sent = f.bytes ]
    ELSE [ p EXCEPT !.errors = @ + 1 ]

\* get_next_outbound_frame hands frame f to its caller (voice_live.py:1135-1147,
\* app2/speech_session.py:104-110)
Got(p, f) ==
    [ p EXCEPT !.got = f.seq ]

SendOutcomes == { ok \in BOOLEAN : ok \/ pacer.errors < benv.max_send_errors }

\* The one message a frame is to be sent as under a media_out_format: a raw
\* binary frame for binary, a JSON AudioData text message otherwise.
ConfiguredWire(fmt) ==
    IF fmt = "binary" THEN << "binary" >> ELSE << "text" >>

\* main.py:452-480: the messages the first frame of a cycle goes out as, per
\* socket: "multi" is coerced to json_simple, the two JSON formats give one
\* text message, binary one binary message
FirstWire(fmt) ==
    LET f == IF fmt = "multi" THEN "json_simple" ELSE fmt
    IN  (IF f \in {"json_simple", "multi"} THEN << "text" >> ELSE <<>>)
        \o (IF f \in {"json_wrapped", "multi"} THEN << "text" >> ELSE <<>>)
        \o (IF f \in {"binary", "multi"} THEN << "binary" >> ELSE <<>>)

\* main.py:507-512: a frame of the backlog goes out as one JSON text message
BacklogWire(fmt) ==
    << "text" >>

\* outbound_loop, app2/media_bridge.py:53-58 (app/media_bridge.py:65-70)
OutboundWire(fmt) ==
    IF fmt = "binary" THEN << "binary" >> ELSE << "text" >>

\* The messages a frame went out as are noted when the send succeeded.
Wired(p, wire, ok) ==
    IF ok THEN [ p EXCEPT !.wire = wire ] ELSE p

PacerReady(pc) == bcfg.impl = "app" /\ pacer.pc = pc

\* main.py:428-432: the loop goes on while the session is active; it then
\* calls get_next_outbound_frame, which waits for a frame for up to a second
\* (voice_live.py:1135-1147) and does not look at the session's state
PacerGet ==
    /\ PacerReady("top")
    /\ pacer' = [ pacer EXCEPT !.pc = IF vl.closed THEN "ended" ELSE "get",
                               !.drained = 0 ]
    /\ UNCHANGED <<steady, vl, bcfg, benv, out, media>>

\* main.py:432-491: the wait ends with the first frame of the cycle, which is
\* sent
PacerSend ==
    /\ PacerReady("get")
    /\ out.seg_queue # <<>>
    /\ out' = [ out EXCEPT !.seg_queue = Tail(@) ]
    /\ IF bcfg.media_bidirectional /\ media.pc = "open"
       THEN \E ok \in SendOutcomes :
              pacer' = [ Wired(Got(Delivered(pacer, Head(out.seg_queue), ok),
                                       Head(out.seg_queue)),
                                   FirstWire(bcfg.media_out_format), ok)
                         EXCEPT !.pc = "sent", !.drained = 1 ]
       ELSE pacer' = [ Got(pacer, Head(out.seg_queue)) EXCEPT !.pc = "sent", !.drained = 1 ]
    /\ UNCHANGED <<steady, vl, bcfg, benv, media>>

\* main.py:493-534: after a send, either the next frame of a large backlog
\* is taken and sent at once, or the cycle ends in a sleep: the pacing sleep
\* when the backlog is low, sleep(0) otherwise
PacerContinue ==
    /\ PacerReady("sent")
    /\ IF ~vl.closed /\ Len(out.seg_queue) > HIGH_BACKLOG_THRESHOLD
          /\ pacer.drained < MAX_BATCH_PER_TICK
       THEN /\ out' = [ out EXCEPT !.seg_queue = Tail(@) ]
            /\ IF bcfg.media_bidirectional /\ media.pc = "open"
               THEN \E ok \in SendOutcomes :
                      pacer' = [ Wired(Got(Delivered(pacer, Head(out.seg_queue), ok),
                                               Head(out.seg_queue)),
                                           BacklogWire(bcfg.media_out_format), ok)
                                 EXCEPT !.drained = @ + 1 ]
               ELSE pacer' = [ Got(pacer, Head(out.seg_queue)) EXCEPT !.drained = @ + 1 ]
       ELSE /\ out' = [ out EXCEPT
                        !.out_seg_queue_high_water = Max(@, Len(out.seg_queue)) ]
            /\ pacer' = [ pacer EXCEPT
                          !.pc = IF Len(out.seg_queue) <= LOW_BACKLOG_SLEEP_THRESHOLD
                                 THEN "sleep" ELSE "yield" ]
    /\ UNCHANGED <<steady, vl, bcfg, benv, media>>

\* main.py:432-440: get_next_outbound_frame times out on an empty ring
PacerTimeout ==
    /\ PacerReady("get")
    /\ out.seg_queue = <<>>
    /\ pacer' = [ pacer EXCEPT !.pc = "sleep", !.drained = 0 ]
    /\ UNCHANGED <<steady, vl, bcfg, benv, out, media>>

\* asyncio.sleep(frame_interval) or asyncio.sleep(0) returns
PacerWake ==
    /\ bcfg.impl = "app"
    /\ pacer.pc \in {"sleep", "yield"}
    /\ pacer' = [ pacer EXCEPT !.pc = "top",
                               !.drained = 0,
                               !.since_sleep = IF pacer.pc = "sleep" THEN 0 ELSE @ ]
    /\ UNCHANGED <<steady, vl, bcfg, benv, out, media>>


(***************************************************************************)
(* Outbound audio, forms "app2" and "sdk": the session segments what the    *)
(* speech SDK delivers, outbound_loop of media_websocket sends it           *)
(* (app2/media_bridge.py:44-64, app/media_bridge.py:55-76).                 *)
(***************************************************************************)
\* app2 SpeechSession._enqueue_output_bytes (app2/speech_session.py:112-124);
\* VoiceLiveSessionGA._enqueue_output_bytes (voice_live_ga.py:206-224) is the
\* same loop.  Their `break`s guard operations that cannot fail here: the
\* ring was just found full, or was just given room.
EnqueueOutputBytes(o, data, c) ==
    Segment(Buffered(o, data), c.media_frame_bytes, RingCapacity)

\* The synthesizing callback of the speech SDK delivers n bytes
\* (app2/speech_session.py:59-66)
Synthesizing ==
    /\ bcfg.impl = "app2"
    /\ ~vl.closed
    /\ out.log.deltas < benv.max_deltas
    /\ \E n \in benv.delta_bytes :
         out' = EnqueueOutputBytes([ out EXCEPT !.log.deltas = @ + 1,
                                                !.log.received = @ + n ],
                                   Run("pcm", out.log.received + 1, n), bcfg)
    /\ UNCHANGED <<steady, vl, bcfg, benv, pacer, media>>

\* app/speech_session.py:406-418
ComputeSampleRate(frame_bytes) == ((frame_bytes \div 2) * 1000) \div FrameMs
FrameBytesForRate(rate) == (rate * FrameMs * 2) \div 1000

\* SpeechSession._process_outbound_chunk up to line 460: the chunk, resampled
\* down when the service's rate is above the telephony rate, joins
\* _outgoing_remainder; a failing resampler clears it
ProcessOutboundChunk(o, chunk, src_rate, target_rate) ==
    IF src_rate > target_rate
    THEN IF Resampled(ByteLen(chunk), src_rate, target_rate, o.resample_state).ok
         THEN [ o EXCEPT
                !.resample_state =
                    Resampled(ByteLen(chunk), src_rate, target_rate, @).carry,
                !.log.converted =
                    @ + Resampled(ByteLen(chunk), src_rate, target_rate, o.resample_state).bytes,
                !.outgoing_remainder =
                    Extend(@, Run("converted", o.log.converted + 1,
                                  Resampled(ByteLen(chunk), src_rate, target_rate,
                                            o.resample_state).bytes)),
                !.log.payload =
                    Extend(@, Run("converted", o.log.converted + 1,
                                  Resampled(ByteLen(chunk), src_rate, target_rate,
                                            o.resample_state).bytes)) ]
         ELSE [ o EXCEPT !.resample_state = 0, !.outgoing_remainder = <<>> ]
    ELSE [ o EXCEPT !.outgoing_remainder = Extend(@, chunk),
                    !.log.payload = Extend(@, chunk) ]

\* app/speech_session.py:462-466 and 335-349: frames of the telephony size are
\* cut from _outgoing_remainder and queued.  On a full ring the drop is
\* counted and then reported through app_state.media_out_dropped, which
\* src/app/state.py does not define: the AttributeError ends the consumer.
RECURSIVE QueueFrames(_, _)
QueueFrames(o, fb) ==
    IF ByteLen(o.outgoing_remainder) < fb THEN o
    ELSE IF Len(o.seg_queue) >= SdkRingCapacity
    THEN [ o EXCEPT !.out_dropped_frames = @ + 1, !.consumer_error = TRUE ]
    ELSE QueueFrames(
           [ o EXCEPT
             !.outgoing_remainder = Drop(@, fb),
             !.seg_queue = Append(@, [ seq |-> o.log.produced + 1,
                                       bytes |-> Take(o.outgoing_remainder, fb) ]),
             !.log.cut      = Extend(@, Take(o.outgoing_remainder, fb)),
             !.log.produced = @ + 1,
             !.log.last.created = @ + 1 ],
           fb)

\* app/speech_session.py:330-334: `while len(self._buffer_out) >= size`
RECURSIVE Chunks(_, _)
Chunks(o, c) ==
    IF ByteLen(o.buffer_out) < o.frame_bytes_dynamic \/ o.consumer_error THEN o
    ELSE Chunks(
           QueueFrames(
             ProcessOutboundChunk(
               [ o EXCEPT !.buffer_out = Drop(@, o.frame_bytes_dynamic) ],
               Take(o.buffer_out, o.frame_bytes_dynamic),
               IF o.model_output_rate # None THEN o.model_output_rate
               ELSE ComputeSampleRate(o.frame_bytes_dynamic),
               ComputeSampleRate(c.media_frame_bytes)),
             c.media_frame_bytes),
           c)

\* app/speech_session.py:326-329: the delta joins _buffer_out; a buffer of a
\* whole number of 960-byte units switches the chunk size from 640 to 960
DeltaBuffered(o, delta) ==
    [ o EXCEPT
      !.buffer_out = Extend(@, delta),
      !.frame_bytes_dynamic =
          IF @ = AUDIO_CHUNK_SIZE
             /\ ByteLen(Extend(o.buffer_out, delta)) >= WideFrameBytes
             /\ ByteLen(Extend(o.buffer_out, delta)) % WideFrameBytes = 0
          THEN WideFrameBytes ELSE @,
      !.log.deltas   = @ + 1,
      !.log.received = @ + ByteLen(delta),
      !.log.last     = [ created |-> 0, evicted |-> 0, before |-> Len(o.seg_queue) ] ]

\* response.audio.delta of n bytes in SpeechSession._event_consumer
\* (app/speech_session.py:321-349)
SdkAudioDelta ==
    /\ bcfg.impl = "sdk"
    /\ ~vl.closed /\ ~out.consumer_error
    /\ out.log.deltas < benv.max_deltas
    /\ \E n \in benv.delta_bytes :
         out' = Chunks(DeltaBuffered(out, Run("pcm", out.log.received + 1, n)), bcfg)
    /\ UNCHANGED <<steady, vl, bcfg, benv, pacer, media>>

OutboundReady(pc) == bcfg.impl \in {"app2", "sdk"} /\ pacer.pc = pc

\* outbound_loop: the pacing sleep returns; without an active session or with
\* outbound audio switched off the loop goes back to sleep
\* (app2/media_bridge.py:46-48).  In app/media_bridge.py the session is looked
\* up as app_main._speech (line 58), a name src/app/main.py does not define:
\* the AttributeError ends the task.
OutboundWake ==
    /\ OutboundReady("sleep")
    /\ pacer' = [ pacer EXCEPT
                  !.pc = IF bcfg.impl = "sdk" THEN "ended"
                         ELSE IF ~vl.closed /\ bcfg.media_enable_voicelive_out
                                 /\ bcfg.media_bidirectional
                         THEN "get" ELSE "sleep",
                  !.since_sleep = 0 ]
    /\ UNCHANGED <<steady, vl, bcfg, benv, out, media>>

\* An outbound loop that goes on after a failed send, to compare against.
KeepSending(ok) ==
    "sleep"

\* app2/media_bridge.py:52-62: after the send the loop goes back to its
\* sleep; the handler of a send error returns from the loop
AfterSend(ok) ==
    IF ok THEN "sleep" ELSE "ended"

\* outbound_loop, app2/media_bridge.py:49-62: a frame is there, it is sent; a
\* send error ends the loop
OutboundSend ==
    /\ OutboundReady("get")
    /\ out.seg_queue # <<>>
    /\ out' = [ out EXCEPT !.seg_queue = Tail(@) ]
    /\ \E ok \in SendOutcomes :
         pacer' = [ Wired(Got(Delivered(pacer, Head(out.seg_queue), ok),
                              Head(out.seg_queue)),
                          OutboundWire(bcfg.media_out_format), ok)
                    EXCEPT !.pc = AfterSend(ok) ]
    /\ UNCHANGED <<steady, vl, bcfg, benv, media>>

\* outbound_loop, app2/media_bridge.py:49-51: no frame within the wait
OutboundEmpty ==
    /\ OutboundReady("get")
    /\ out.seg_queue = <<>>
    /\ pacer' = [ pacer EXCEPT !.pc = "sleep" ]
    /\ UNCHANGED <<steady, vl, bcfg, benv, out, media>>

(***************************************************************************)
(* The telephony websocket: handshake and inbound loop                      *)
(***************************************************************************)
\* What the telephony peer sends: text that is no JSON, JSON that is no
\* object, an AudioMetadata object, an AudioData object whose base64 decodes
\* to len bytes of the given peak and RMS, one whose base64 does not decode,
\* a binary message of len bytes, or the disconnect; ReceiveError stands for
\* ws.receive() raising.
Msg(kind, len, peak, rms) == [ kind |-> kind, len |-> len, peak |-> peak, rms |-> rms ]
NotJson     == Msg("not_json", 0, 0, 0)
NotObject   == Msg("not_object", 0, 0, 0)
Metadata    == Msg("metadata", 0, 0, 0)
BadBase64   == Msg("bad_base64", 0, 0, 0)
Disconnect  == Msg("disconnect", 0, 0, 0)
ReceiveError == Msg("receive_error", 0, 0, 0)
Malformed   == {"not_json", "not_object", "bad_base64"}

\* ws.accept(): Starlette sets application_state to CONNECTED
Accepted(m) == [ m EXCEPT !.application_state = "CONNECTED" ]

\* A handshake that never sends the ack, to compare against.
NoAck(m, ok) ==
    [ m EXCEPT !.pc = "open" ]

\* main.py:578-585, media_bridge.py:43-48 (both): the ack is sent when the
\* socket is connected; if the send raises, the handler returns
AckSent(m, ok) ==
    IF m.application_state = "CONNECTED"
    THEN IF ok THEN [ m EXCEPT !.acks = @ + 1, !.pc = "open" ]
         ELSE [ m EXCEPT !.pc = "closed", !.cause = "ack" ]
    ELSE [ m EXCEPT !.pc = "open" ]

AckOutcomes == { ok \in BOOLEAN : ok \/ benv.ack_may_fail }

\* main.py:594-596, media_bridge.py:41-42 (both): after the ack the socket is
\* added to _active_media_sockets and app_state.media_ws_open() is called
Registered(m) ==
    IF m.pc = "open" THEN [ m EXCEPT !.registered = TRUE, !.upstream_active = TRUE ]
    ELSE m

\* media_ws's finally clause, main.py:809-820: the socket is discarded and
\* app_state.media_ws_close() clears upstreamActive (state.py:377-380)
MediaWsFinally(m) ==
    IF m.pc = "closed"
    THEN [ m EXCEPT !.registered = FALSE, !.upstream_active = FALSE ]
    ELSE m

\* media_websocket's finally clause (app2/media_bridge.py:99-104,
\* app/media_bridge.py:111-120): the socket is discarded
MediaWebsocketFinally(m) ==
    IF m.pc = "closed" THEN [ m EXCEPT !.registered = FALSE ] ELSE m

\* media_ws up to its receive loop, main.py:568-596
MediaWsAccept ==
    /\ bcfg.impl = "app"
    /\ media.pc = "connecting"
    /\ \E ok \in AckOutcomes : media' = Registered(AckSent(Accepted(media), ok))
    /\ UNCHANGED <<steady, vl, bcfg, benv, out, pacer>>

\* media_websocket up to its receive loop (app2/media_bridge.py:26-64,
\* app/media_bridge.py:37-76); outbound_loop is started once the ack is out
MediaWebsocketAccept ==
    /\ bcfg.impl \in {"app2", "sdk"}
    /\ media.pc = "connecting"
    /\ \E ok \in AckOutcomes :
         /\ media' = Registered(AckSent(Accepted(media), ok))
         /\ pacer' = IF media'.pc = "open" THEN [ pacer EXCEPT !.pc = "sleep" ] ELSE pacer
    /\ UNCHANGED <<steady, vl, bcfg, benv, out>>

RECURSIVE Sum(_)
Sum(seq) == IF seq = <<>> THEN 0 ELSE Head(seq) + Sum(Tail(seq))

\* The inbound loop read msg: the record of what it did with it starts empty
Read(m, msg, bridging) ==
    [ m EXCEPT !.reads = @ + 1,
               !.last_in = [ kind |-> msg.kind, len |-> msg.len, forwarded |-> <<>>,
                             bridging |-> bridging, outbound |-> pacer.pc ] ]

\* Frame k of the message is passed to the session's input
Forwarded(m, k) ==
    [ m EXCEPT !.forwarded = @ + 1, !.last_in.forwarded = Append(@, k) ]

\* AppState.media_process_audio_frame, state.py:382-424
ProcessAudioFrame(m, msg) ==
    [ m EXCEPT
      !.audio_frames_non_silent = IF msg.peak > SilencePeak THEN @ + 1 ELSE @,
      !.rms_window = IF Len(@) >= RmsWindow THEN Append(Tail(@), msg.rms)
                     ELSE Append(@, msg.rms) ]

\* main.py:706-736 for frame k, after its statistics were taken: the bridge
\* to the session opens once enough non-silent frames of enough average
\* energy were seen, and only then are frames passed on
Gated(m, k, c) ==
    IF ~m.last_in.bridging THEN m
    ELSE IF m.vl_in_started THEN Forwarded(m, k)
    ELSE IF m.audio_frames_non_silent >= c.media_vl_in_start_frames
            /\ Sum(m.rms_window) \div Len(m.rms_window) >= c.media_vl_in_start_rms
    THEN Forwarded([ m EXCEPT !.vl_in_started = TRUE ], k)
    ELSE m

\* main.py:696-737: every whole 640-byte slice of the decoded payload
RECURSIVE Slices(_, _, _, _)
Slices(m, msg, k, c) ==
    IF (k + 1) * AUDIO_CHUNK_SIZE > msg.len THEN m
    ELSE Slices(Gated(ProcessAudioFrame(m, msg), k, c), msg, k + 1, c)

\* media_ws, one turn of its receive loop (main.py:628-803).  Only JSON audio
\* reaches the session; a binary message is counted and logged.
MediaWsHandled(m, msg, c) ==
    IF msg.kind = "disconnect" THEN [ m EXCEPT !.pc = "closed", !.cause = "disconnect" ]
    ELSE IF msg.kind = "receive_error" THEN [ m EXCEPT !.pc = "closed", !.cause = "error" ]
    ELSE IF msg.kind = "audio" THEN Slices(m, msg, 0, c)
    ELSE m

Bridging == bcfg.media_enable_voicelive_in /\ ~vl.closed

\* What the telephony peer may send next: one of the run's messages, or,
\* once the call was hung up through the call-automation API, the disconnect.
Incoming ==
    IF call.hung_up THEN { Disconnect }
    ELSE IF media.reads < benv.max_messages THEN benv.messages
    ELSE {}

MediaWsReceive ==
    /\ bcfg.impl = "app"
    /\ media.pc = "open"
    /\ \E msg \in Incoming :
         /\ media' = MediaWsFinally(MediaWsHandled(Read(media, msg, Bridging), msg, bcfg))
         \* main.py:703-704
         /\ vl' = IF msg.kind = "audio" /\ msg.len >= AUDIO_CHUNK_SIZE
                     /\ msg.peak > SilencePeak
                  THEN [ vl EXCEPT !.speech_detected = TRUE ] ELSE vl
    /\ UNCHANGED <<steady, bcfg, benv, out, pacer>>

\* _handle_inbound_pcm (app2/media_bridge.py:106-121): every whole frame of
\* the payload goes to the session
RECURSIVE Frames(_, _, _, _)
Frames(m, msg, k, fb) ==
    IF (k + 1) * fb > msg.len THEN m
    ELSE Frames(Forwarded(m, k), msg, k + 1, fb)

HandleInboundPcm(m, msg, fb) ==
    IF msg.len = 0 \/ ~m.last_in.bridging THEN m ELSE Frames(m, msg, 0, fb)

\* media_websocket, one turn of its receive loop (app2/media_bridge.py:68-98):
\* `parsed.get` on JSON that is no object raises and the outer handler ends
\* the loop
MediaWebsocketHandled(m, msg, fb) ==
    IF msg.kind = "disconnect" THEN [ m EXCEPT !.pc = "closed", !.cause = "disconnect" ]
    ELSE IF msg.kind \in {"not_object", "receive_error"}
    THEN [ m EXCEPT !.pc = "closed", !.cause = "error" ]
    ELSE IF msg.kind \in {"audio", "binary"} THEN HandleInboundPcm(m, msg, fb)
    ELSE m

\* media_websocket's finally clause cancels outbound_loop
Cancelled(p) == IF p.pc = "ended" THEN p ELSE [ p EXCEPT !.pc = "cancelled" ]

MediaWebsocketReceive ==
    /\ bcfg.impl = "app2"
    /\ media.pc = "open"
    /\ \E msg \in Incoming :
         media' = MediaWebsocketFinally(
                      MediaWebsocketHandled(Read(media, msg, Bridging), msg,
                                            bcfg.media_frame_bytes))
    /\ pacer' = IF media'.pc = "closed" THEN Cancelled(pacer) ELSE pacer
    /\ UNCHANGED <<steady, vl, bcfg, benv, out>>

\* app/media_bridge.py:80-81 and 109-120: the loop starts by reading
\* app_main._speech, which src/app/main.py does not define; the AttributeError
\* is caught by the outer handler and the socket handler ends before the
\* first receive
MediaWebsocketLookup ==
    /\ bcfg.impl = "sdk"
    /\ media.pc = "open"
    /\ media' = MediaWebsocketFinally([ media EXCEPT !.pc = "closed", !.cause = "error" ])
    /\ pacer' = Cancelled(pacer)
    /\ UNCHANGED <<steady, vl, bcfg, benv, out>>

(***************************************************************************)
(* The end of a call: _timeout_watcher, call events, close()               *)
(***************************************************************************)
\* AppState.end_call, state.py:134-143 (app2/state.py:33-40)
EndCall(c, reason) ==
    [ c EXCEPT !.active = FALSE, !.end_reason = reason ]

\* main.py:309-313, 319-322 (app2/main.py:171-173, 177-179): the call is
\* marked ended and the session, if still active, is closed
Ended(c, reason, s, impl) ==
    IF s.closed THEN EndCall(c, reason)
    ELSE CloseCalled(EndCall(c, reason), s, impl)

\* The reason recorded by the idle branch (main.py:318, app2/main.py:176)
IdleReason(impl) == IF impl = "app" THEN "IdleTimeout" ELSE "Idle"

HangUpOutcomes == { ok \in BOOLEAN : ok \/ benv.hangup_may_fail }

\* One iteration of _timeout_watcher (main.py:283-324, app2/main.py:156-179)
\* after its sleep: past call_timeout_sec the call is hung up through the
\* API (errors are swallowed), marked ended and the session closed; past
\* call_idle_timeout_sec it is marked ended and the session closed.  Neither
\* branch touches the media websocket or the sending task.
TimeoutWatcher ==
    /\ bcfg.impl \in {"app", "app2"}
    /\ call.active
    /\ call.elapsed < benv.watcher_runs * WatcherPeriodSec
    /\ LET elapsed == call.elapsed + WatcherPeriodSec
           idle    == call.idle + WatcherPeriodSec
           c1      == [ call EXCEPT !.elapsed = elapsed, !.idle = idle ]
       IN  IF elapsed > bcfg.call_timeout_sec
           THEN /\ \E ok \in HangUpOutcomes :
                     call' = Ended([ c1 EXCEPT !.hung_up = ok ], "Timeout", vl, bcfg.impl)
                /\ vl' = Closed(vl)
           ELSE IF idle > bcfg.call_idle_timeout_sec
           THEN /\ call' = Ended(c1, IdleReason(bcfg.impl), vl, bcfg.impl)
                /\ vl' = Closed(vl)
           ELSE /\ call' = c1
                /\ vl' = vl
    /\ UNCHANGED <<controller, rest, bcfg, benv, out, pacer, media>>

\* A call-automation event that does not end the call is posted to
\* /call/events: update_last_event restarts the idle clock
\* (main.py call_events, app2/main.py:126)
CallEvent ==
    /\ bcfg.impl \in {"app", "app2"}
    /\ call.active
    /\ call.events < benv.call_events
    /\ call' = [ call EXCEPT !.idle = 0, !.events = @ + 1 ]
    /\ UNCHANGED <<controller, rest, vl, bcfg, benv, out, pacer, media>>

\* receive_loop ends after the session was closed by someone else: its
\* finally clause calls close() once more (voice_live.py:1071-1076)
RecvLoopEnds ==
    /\ bcfg.impl = "app"
    /\ task["recv"].pc = "idle"
    /\ call.receiving
    /\ vl.closed
    /\ vl' = Closed(vl)
    /\ call' = [ CloseCalled(call, vl, bcfg.impl) EXCEPT !.receiving = FALSE ]
    /\ UNCHANGED <<controller, rest, bcfg, benv, out, pacer, media>>

\* close() of a SpeechSession is called.  The callers in src/app2/main.py
\* call it on an active session only (lines 105, 144, 171, 177);
\* app/speech_session.py has no caller in the repository, its close() is
\* applied as often as the run says.
SessionClose ==
    /\ bcfg.impl \in {"app2", "sdk"}
    /\ call.close_calls < benv.close_calls
    /\ bcfg.impl = "app2" => ~vl.closed
    /\ vl' = Closed(vl)
    /\ call' = CloseCalled(call, vl, bcfg.impl)
    /\ UNCHANGED <<controller, rest, bcfg, benv, out, pacer, media>>

(***************************************************************************)
(* Specification of the media bridge                                       *)
(***************************************************************************)
\* SpeechSession.connect() of app/speech_session.py returns after
\* session.updated was handled (_handle_session_update, lines 366-385)
SdkConnected(o, rate) ==
    IF rate = None THEN o
    ELSE [ o EXCEPT !.model_output_rate = rate,
                    !.frame_bytes_dynamic = FrameBytesForRate(rate) ]

\* No caller audio reaches the controller in these runs
NoIntake ==
    [ script |-> <<>>, max_frames |-> 0, levels |-> {}, max_ticks |-> 0, tick_ms |-> FrameMs,
      max_responses |-> 0 ]

BridgeInitWith(configs, world) ==
    /\ bcfg \in configs
    /\ benv = world
    /\ out = IF bcfg.impl = "sdk" THEN SdkConnected(InitOut(bcfg), benv.output_rate)
             ELSE InitOut(bcfg)
    \* main.py:419-537: _pacer is started with the session when outbound audio
    \* is enabled
    /\ pacer = IF bcfg.impl = "app" /\ bcfg.media_enable_voicelive_out
               THEN [ InitPacer EXCEPT !.pc = "top" ] ELSE InitPacer
    /\ media = InitMedia
    /\ call = InitCall
    /\ RestInit
    /\ cfg = ScaledCfg
    /\ env = NoIntake
    /\ vl = InitSession(cfg)
    /\ now = ClockStart
    /\ task = [ t \in Tasks |-> Idle ]
    /\ frames_to_send = <<>>
    /\ submitted = 0
    /\ appended = <<>>
    /\ pending_acks = 0
    /\ last_commit = NoCommit
    /\ last_eval = NoEval
    /\ since_empty = None
    /\ service = InitService

\* MEDIA_OUT_FORMAT defaults to multi in src/app (config.py:138) and to
\* json_simple in src/app2 (app2/config.py:67)
Form(impl) ==
    [ DefaultBridgeCfg EXCEPT !.impl = impl,
                              !.media_out_format = IF impl = "app2" THEN "json_simple" ELSE @ ]
Binary(impl) == [ Form(impl) EXCEPT !.media_out_format = "binary" ]
Unread(impl) == [ Form(impl) EXCEPT !.media_enable_voicelive_out = FALSE ]
Deaf(impl) == [ Form(impl) EXCEPT !.media_enable_voicelive_in = FALSE ]

\* What the telephony peer may send: AudioData of two loud frames, of ten
\* loud frames, of one quiet frame, of a frame and a half; two frames as a
\* binary message; the malformed messages; metadata; the disconnect.
Inbound ==
    { Msg("audio", 2 * 640, 4000, 900), Msg("audio", 10 * 640, 4000, 900),
      Msg("audio", 640, 20, 5), Msg("audio", 960, 4000, 900),
      Msg("binary", 2 * 640, 4000, 900),
      NotJson, NotObject, BadBase64, Metadata, Disconnect, ReceiveError }

\* The runs explored: the form of the bridge and its settings, the rate the
\* service announces, the sizes and number of its audio payloads, the
\* telephony messages, the sends that may fail.
UnreadSingles ==
    [ configs |-> { Unread("app"), Unread("app2") },
      world   |-> [ QuietLine EXCEPT !.output_rate = TargetRate,
                                     !.delta_bytes = { 640 },
                                     !.max_deltas = UnreadFrames ] ]
UnreadBursts ==
    [ configs |-> { Unread("app"), Unread("app2") },
      world   |-> [ QuietLine EXCEPT !.output_rate = TargetRate,
                                     !.delta_bytes = { 100, 3 * 640, 10 * 640 },
                                     !.max_deltas = BurstDeltas ] ]
Resampling ==
    [ configs |-> { Unread("app"), [ Unread("app") EXCEPT !.media_frame_bytes = 320 ] },
      world   |-> [ QuietLine EXCEPT !.delta_bytes = { 960, 961, 1500, 4800 },
                                     !.max_deltas = MaxDeltas ] ]
Paced ==
    [ configs |-> { Form("app"), Form("app2"), Binary("app"), Binary("app2") },
      world   |-> [ QuietLine EXCEPT !.output_rate = TargetRate,
                                     !.delta_bytes = { 12 * 640 },
                                     !.max_deltas = PacedDeltas ] ]
Failing ==
    [ configs |-> { Form("app"), Form("app2") },
      world   |-> [ QuietLine EXCEPT !.output_rate = TargetRate,
                                     !.delta_bytes = { 640, 700 },
                                     !.max_deltas = MaxDeltas - 1,
                                     !.max_send_errors = MaxSendErrors,
                                     !.ack_may_fail = TRUE ] ]
Listening ==
    [ configs |-> { Unread("app"), Unread("app2"), Deaf("app"), Deaf("app2"), Form("sdk") },
      world   |-> [ QuietLine EXCEPT !.messages = Inbound,
                                     !.max_messages = MaxMessages,
                                     !.ack_may_fail = TRUE ] ]
Duplex ==
    [ configs |-> { Form("app2") },
      world   |-> [ QuietLine EXCEPT !.delta_bytes = { 2 * 640 },
                                     !.max_deltas = 1,
                                     !.messages = { Msg("audio", 2 * 640, 4000, 900),
                                                    NotJson, Disconnect },
                                     !.max_messages = MaxMessages - 1,
                                     !.max_send_errors = MaxSendErrors ] ]
Sdk(rate) ==
    [ configs |-> { Form("sdk") },
      world   |-> [ QuietLine EXCEPT !.output_rate = rate,
                                     !.delta_bytes = { 640, 700, 960, 3 * 640 },
                                     !.max_deltas = MaxDeltas ] ]

\* A call that runs into its timeouts: the limits are one or two periods of
\* the watcher, an event may restart the idle clock, the hang-up may fail,
\* the caller says something once.
TimedCfg(impl, timeout_sec) ==
    [ Form(impl) EXCEPT !.call_timeout_sec = timeout_sec,
                        !.call_idle_timeout_sec = WatcherPeriodSec ]
Ending ==
    [ configs |-> { TimedCfg(impl, timeout_sec) :
                      impl \in {"app", "app2"},
                      timeout_sec \in { WatcherPeriodSec, 2 * WatcherPeriodSec } },
      world   |-> [ QuietLine EXCEPT !.output_rate = TargetRate,
                                     !.delta_bytes = { 640 },
                                     !.max_deltas = 1,
                                     !.messages = { Msg("audio", 2 * 640, 4000, 900) },
                                     !.max_messages = 1,
                                     !.watcher_runs = MaxWatcherRuns,
                                     !.call_events = MaxCallEvents,
                                     !.hangup_may_fail = TRUE ] ]
\* close() is called more than once.
ClosingTwice ==
    [ configs |-> { Form("app2"), Form("sdk") },
      world   |-> [ QuietLine EXCEPT !.output_rate = TargetRate,
                                     !.delta_bytes = { 640 },
                                     !.max_deltas = 1,
                                     !.close_calls = MaxCloseCalls ] ]

BridgeRuns ==
    { UnreadSingles, UnreadBursts, Resampling, Paced, Failing, Listening, Duplex,
      Sdk(None), Sdk(TargetRate), Sdk(AssumedOutputRate), Ending, ClosingTwice }

BridgeInit == \E run \in BridgeRuns : BridgeInitWith(run.configs, run.world)

BridgeNext ==
    \/ RecvSessionUpdated
    \/ RecvConnectionLost
    \/ RecvAudioDelta
    \/ BargeInFlush
    \/ PacerGet
    \/ PacerSend
    \/ PacerContinue
    \/ PacerTimeout
    \/ PacerWake
    \/ Synthesizing
    \/ SdkAudioDelta
    \/ OutboundWake
    \/ OutboundSend
    \/ OutboundEmpty
    \/ MediaWsAccept
    \/ MediaWsReceive
    \/ MediaWebsocketAccept
    \/ MediaWebsocketReceive
    \/ MediaWebsocketLookup
    \/ TimeoutWatcher
    \/ CallEvent
    \/ RecvLoopEnds
    \/ SessionClose

BridgeSpec == BridgeInit /\ [][BridgeNext]_vars

(***************************************************************************)
(* Specification of a call that runs into its timeouts                     *)
(***************************************************************************)
\* The calls of src/app/main.py and src/app2/main.py, with the timeout
\* watcher running.
CallRuns == { Ending }

CallInit == \E run \in CallRuns : BridgeInitWith(run.configs, run.world)

CallNext ==
    \/ RecvSessionUpdated
    \/ RecvConnectionLost
    \/ RecvAudioDelta
    \/ BargeInFlush
    \/ PacerGet
    \/ PacerSend
    \/ PacerContinue
    \/ PacerTimeout
    \/ PacerWake
    \/ Synthesizing
    \/ OutboundWake
    \/ OutboundSend
    \/ OutboundEmpty
    \/ MediaWsAccept
    \/ MediaWsReceive
    \/ MediaWebsocketAccept
    \/ MediaWebsocketReceive
    \/ TimeoutWatcher
    \/ CallEvent
    \/ RecvLoopEnds

\* The event loop runs every task that is ready: the watcher's sleep ends,
\* the sending tasks and the handlers of the media websocket go on, the
\* receive loop reaches its finally clause, and what the telephony peer has
\* sent arrives.  Nothing obliges the speech service to fail or to answer.
CallFairness ==
    /\ WF_vars(CallNext)
    /\ WF_vars(TimeoutWatcher)
    /\ WF_vars(RecvLoopEnds)
    /\ WF_vars(PacerGet) /\ WF_vars(PacerSend) /\ WF_vars(PacerContinue)
    /\ WF_vars(PacerTimeout) /\ WF_vars(PacerWake)
    /\ WF_vars(OutboundWake) /\ WF_vars(OutboundSend) /\ WF_vars(OutboundEmpty)
    /\ WF_vars(MediaWsAccept) /\ WF_vars(MediaWsReceive)
    /\ WF_vars(MediaWebsocketAccept) /\ WF_vars(MediaWebsocketReceive)

CallSpec == CallInit /\ [][CallNext]_vars /\ CallFairness

(***************************************************************************)
(* The runtime state and its snapshot (state.py, app2/state.py)            *)
(***************************************************************************)
\* The dict begin_call creates (state.py:125-129, app2/state.py:30); a key
\* that is absent is None / "".
CallDict(t) ==
    [ started_at |-> t, ended_at |-> None, end_reason |-> "", duration_sec |-> None ]

Deref(a, id) == IF id = None THEN None ELSE a.heap[id]

\* The duration both forms write into the dict they were handed
\* (_augment_with_duration, state.py:210-220; _dur, app2/state.py:96-102)
WithDuration(d, t) ==
    IF d.started_at = None THEN d
    ELSE [ d EXCEPT !.duration_sec = IF d.ended_at # None THEN d.ended_at - d.started_at
                                     ELSE t - d.started_at ]

StateStep(a, op) == [ a EXCEPT !.op = op, !.steps = @ + 1 ]

StateReady == app_state.steps < MaxStateSteps

\* begin_call, state.py:121-132
StateBeginCall ==
    /\ StateReady
    /\ Len(app_state.heap) < MaxCalls
    /\ app_state' = StateStep([ app_state EXCEPT
                          !.heap = Append(@, CallDict(app_state.clock)),
                          !.current_call = Len(app_state.heap) + 1 ], "begin_call")
    /\ UNCHANGED <<controller, call, vl, bcfg, benv, out, pacer, media, batch, hooks>>

\* end_call, state.py:134-143: the dict is completed in place and becomes
\* last_call
StateEndCall ==
    /\ StateReady
    /\ app_state.current_call # None
    /\ \E reason \in { "", "Timeout" } :
         app_state' = StateStep([ app_state EXCEPT
                          !.heap[app_state.current_call] =
                              [ @ EXCEPT !.ended_at = app_state.clock,
                                         !.end_reason = reason ],
                          !.last_call = app_state.current_call,
                          !.current_call = None ], "end_call")
    /\ UNCHANGED <<controller, call, vl, bcfg, benv, out, pacer, media, batch, hooks>>

\* media_in_frame, state.py:234-240
StateMediaInFrame ==
    /\ StateReady
    /\ app_state.inFrames < MaxStateFrames
    /\ app_state' = StateStep([ app_state EXCEPT !.inFrames = @ + 1 ], "media_in_frame")
    /\ UNCHANGED <<controller, call, vl, bcfg, benv, out, pacer, media, batch, hooks>>

\* snapshot() of src/app/state.py, lines 81-99: the call dicts are handed to
\* _augment_with_duration as they are, which writes duration_sec into them
\* and returns them; media is copied with dict().
AppSnapshot(a) ==
    LET h1 == IF a.current_call = None THEN a.heap
              ELSE [ a.heap EXCEPT ![a.current_call] = WithDuration(@, a.clock) ]
        h2 == IF a.last_call = None THEN h1
              ELSE [ h1 EXCEPT ![a.last_call] = WithDuration(@, a.clock) ]
    IN  [ a EXCEPT !.heap = h2,
                   !.view = [ taken |-> TRUE, current |-> a.current_call,
                              last |-> a.last_call, inFrames |-> a.inFrames ] ]

\* snapshot() of src/app2/state.py, lines 94-108: each call dict is copied
\* with dict() before _dur writes into the copy.
App2Snapshot(a) ==
    LET h1  == IF a.current_call = None THEN a.heap
               ELSE Append(a.heap, WithDuration(a.heap[a.current_call], a.clock))
        cur == IF a.current_call = None THEN None ELSE Len(h1)
        h2  == IF a.last_call = None THEN h1
               ELSE Append(h1, WithDuration(a.heap[a.last_call], a.clock))
        lst == IF a.last_call = None THEN None ELSE Len(h2)
    IN  [ a EXCEPT !.heap = h2,
                   !.view = [ taken |-> TRUE, current |-> cur, last |-> lst,
                              inFrames |-> a.inFrames ] ]

\* GET /status (main.py:153, app2/main.py:46)
StateSnapshot ==
    /\ StateReady
    /\ app_state' = StateStep(IF bcfg.impl = "app2" THEN App2Snapshot(app_state)
                              ELSE AppSnapshot(app_state), "snapshot")
    /\ UNCHANGED <<controller, call, vl, bcfg, benv, out, pacer, media, batch, hooks>>

\* time.time() moves on
StateTick ==
    /\ app_state.clock < MaxStateClock
    /\ app_state' = [ app_state EXCEPT !.clock = @ + 1, !.op = "tick" ]
    /\ UNCHANGED <<controller, call, vl, bcfg, benv, out, pacer, media, batch, hooks>>

StateInit == BridgeInitWith({ Form("app"), Form("app2") }, QuietLine)

StateNext ==
    \/ StateBeginCall
    \/ StateEndCall
    \/ StateMediaInFrame
    \/ StateSnapshot
    \/ StateTick

StateSpec == StateInit /\ [][StateNext]_vars

(***************************************************************************)
(* The batching SpeechSession (app/speech_session.py)                      *)
(*                                                                         *)
(* send_input_frame adds each frame to _input_buffer and flushes the       *)
(* buffer as one input_audio_buffer.append, at once when enough frames are *)
(* buffered or the buffer is old, else from a _flush_after_delay task.     *)
(* The append is an await: the task that flushes may be suspended in it    *)
(* while the other task runs. Times are in ms.                             *)
(***************************************************************************)
\* voicelive_input_flush_target_frames, _interval_ms and _max_interval_ms as
\* __init__ normalises them (lines 94-99)
FlushTargetFrames == Max(1, BatchTargetFrames)
FlushIntervalMs == Max(BatchIntervalMs, 1)
FlushMaxIntervalMs == Max(BatchMaxIntervalMs, FlushIntervalMs)
MinFlushDelayMs == Min(FlushIntervalMs, 20)

\* A timer slot no task is using, 0 when all are taken
FreeTimer(b) ==
    IF \E k \in 1..MaxTimers : b.timer[k].pc = "free"
    THEN CHOOSE k \in 1..MaxTimers :
             /\ b.timer[k].pc = "free"
             /\ \A j \in 1..(k - 1) : b.timer[j].pc # "free"
    ELSE 0

\* asyncio.create_task(self._flush_after_delay(delay)), lines 254, 260, and
\* the sleep the task starts with, line 301
CreateFlushTask(b, delay) ==
    LET k == FreeTimer(b) IN
    [ b EXCEPT !.flush_task = k,
               !.timer[k] = [ pc |-> "sleep", payload |-> <<>>, cancelled |-> FALSE,
                              wake_at |-> b.clock + Max(delay, MinFlushDelayMs) ] ]

\* self._flush_task.cancel(); self._flush_task = None, lines 237-239
CancelFlushTask(b) ==
    IF b.flush_task = 0 THEN b
    ELSE [ b EXCEPT !.timer[b.flush_task].cancelled = TRUE, !.flush_task = 0 ]

\* _flush_input_buffer up to its await, lines 273-285: the payload is a copy
\* of the buffer as it is now, and goes to the connection
FlushBegin(b) ==
    [ b EXCEPT !.wire = Append(@, b.input_buffer) ]

\* the finally of _flush_input_buffer, lines 293-297
FlushFinally(b) ==
    [ b EXCEPT !.input_buffer = <<>>, !.input_frames_buffered = 0, !.last_flush = b.clock ]

\* send_input_frame, lines 218-263, up to its flush's await or its return
SendInputFrame(b, frame) ==
    LET b1 == CancelFlushTask(
                  [ b EXCEPT !.input_buffer = Append(@, frame),
                             !.input_frames_buffered = @ + 1,
                             !.accepted = frame ])
        elapsed == b1.clock - b1.last_flush
        flush_due_to_count == b1.input_frames_buffered >= FlushTargetFrames
        flush_due_to_time == elapsed >= FlushIntervalMs
        by_max == (~flush_due_to_count) /\ flush_due_to_time
                     /\ elapsed >= FlushMaxIntervalMs
        flush_reason == IF flush_due_to_count THEN "count"
                        ELSE IF by_max THEN "max_interval" ELSE ""
        b2 == IF (~flush_due_to_count) /\ flush_due_to_time /\ ~by_max
              THEN CreateFlushTask(b1, Max(FlushIntervalMs - elapsed, MinFlushDelayMs))
              ELSE b1
        should_flush == by_max \/ flush_due_to_count
    IN  IF should_flush
        THEN [ FlushBegin(b2) EXCEPT !.sender = [ pc |-> "append", payload |-> b2.input_buffer ] ]
        ELSE IF flush_reason = "" /\ b2.flush_task = 0
             THEN CreateFlushTask(b2, FlushIntervalMs)
             ELSE b2

\* The inbound loop passes the next frame of the call to send_input_frame
\* (media_bridge.py:137-140); frames are named by their number.
BatchSendInputFrame ==
    /\ batch.sender.pc = "idle"
    /\ batch.accepted < MaxBatchFrames
    /\ FreeTimer(batch) # 0
    /\ batch' = SendInputFrame(batch, batch.accepted + 1)
    /\ UNCHANGED <<controller, call, vl, bcfg, benv, out, pacer, media, app_state, hooks>>

\* The append send_input_frame's flush was suspended in returns
BatchSendResume ==
    /\ batch.sender.pc = "append"
    /\ batch' = [ FlushFinally(batch) EXCEPT !.sender = [ pc |-> "idle", payload |-> <<>> ] ]
    /\ UNCHANGED <<controller, call, vl, bcfg, benv, out, pacer, media, app_state, hooks>>

\* _flush_after_delay after its sleep, lines 301-303, 306-307
BatchTimerWake ==
    \E k \in 1..MaxTimers :
        /\ batch.timer[k].pc = "sleep"
        /\ ~batch.timer[k].cancelled
        /\ batch.clock >= batch.timer[k].wake_at
        /\ batch' = IF batch.input_buffer # <<>>
                    THEN [ FlushBegin(batch) EXCEPT
                             !.timer[k].pc = "append",
                             !.timer[k].payload = batch.input_buffer ]
                    ELSE [ batch EXCEPT !.timer[k] = NoTimer, !.flush_task = 0 ]
        /\ UNCHANGED <<controller, call, vl, bcfg, benv, out, pacer, media, app_state, hooks>>

\* The append the timer's flush was suspended in returns, lines 293-297,
\* 306-307
BatchTimerResume ==
    \E k \in 1..MaxTimers :
        /\ batch.timer[k].pc = "append"
        /\ ~batch.timer[k].cancelled
        /\ batch' = [ FlushFinally(batch) EXCEPT !.timer[k] = NoTimer, !.flush_task = 0 ]
        /\ UNCHANGED <<controller, call, vl, bcfg, benv, out, pacer, media, app_state, hooks>>

\* A cancelled task runs again: CancelledError is raised where it was
\* suspended, in the sleep (lines 304-307) or in the append, whose finally
\* still runs (lines 293-297)
BatchTimerCancelled ==
    \E k \in 1..MaxTimers :
        /\ batch.timer[k].pc \in {"sleep", "append"}
        /\ batch.timer[k].cancelled
        /\ batch' = [ (IF batch.timer[k].pc = "append" THEN FlushFinally(batch) ELSE batch)
                      EXCEPT !.timer[k] = NoTimer, !.flush_task = 0 ]
        /\ UNCHANGED <<controller, call, vl, bcfg, benv, out, pacer, media, app_state, hooks>>

\* time.monotonic() moves on
BatchTick ==
    /\ batch.clock < MaxBatchClockMs
    /\ batch' = [ batch EXCEPT !.clock = @ + FrameMs ]
    /\ UNCHANGED <<controller, call, vl, bcfg, benv, out, pacer, media, app_state, hooks>>

BatchInit == BridgeInitWith({ Form("app") }, QuietLine)

BatchNext ==
    \/ BatchSendInputFrame
    \/ BatchSendResume
    \/ BatchTimerWake
    \/ BatchTimerResume
    \/ BatchTimerCancelled
    \/ BatchTick

BatchSpec == BatchInit /\ [][BatchNext]_vars

(***************************************************************************)
(* The call-event webhook and the session it starts                        *)
(*                                                                         *)
(* Each POST to the events route is handled by its own task. The handler   *)
(* of CallConnected creates the session object, stores it in the module's  *)
(* global and awaits connect(); other handlers run while it is suspended.  *)
(***************************************************************************)
\* VoiceLiveSession.active, voice_live.py:193-196 (SpeechSession.active in
\* app2): true once connect has opened the connection and until close()
SessionActive(h, id) ==
    id # 0 /\ h.sessions[id] = "open"

\* main.py:397-400 (app2/main.py:136-137): a session is created unless the
\* global holds an active one
CreatesSession(h) ==
    ~SessionActive(h, h.session)

\* Whether connect() suspends the handler. VoiceLiveSession.connect awaits
\* websockets.connect (voice_live.py:236); app2's SpeechSession.connect has no
\* await of its own, and asyncio.wait_for yields or not with the Python version
ConnectSuspends(impl) ==
    IF impl = "app2" THEN BOOLEAN ELSE { TRUE }

\* What connect() can come to: VoiceLiveSession.connect raises when no
\* subprotocol is accepted (voice_live.py:246-251); app2's falls back to the
\* mock and is active in every case (app2/speech_session.py:68-76)
ConnectOutcomes(impl) ==
    IF impl = "app2" THEN { "open" } ELSE { "open", "failed" }

\* A CallConnected event of the current call, main.py:384-408
\* (app2/main.py:129-139), up to the await of connect
HookCallConnected ==
    \E h \in 1..MaxHandlers :
        /\ hooks.handler[h].pc = "idle"
        /\ ~hooks.call_over
        /\ IF CreatesSession(hooks)
           THEN /\ Len(hooks.sessions) < MaxSessions
                /\ \E suspends \in ConnectSuspends(bcfg.impl) :
                     LET id == Len(hooks.sessions) + 1 IN
                     hooks' = [ hooks EXCEPT
                                  !.sessions = Append(@, IF suspends THEN "connecting" ELSE "open"),
                                  !.session = id,
                                  !.handler[h] = IF suspends
                                                 THEN [ pc |-> "connect", obj |-> id ]
                                                 ELSE [ pc |-> "done", obj |-> id ] ]
           ELSE hooks' = [ hooks EXCEPT !.handler[h].pc = "done" ]
        /\ UNCHANGED <<controller, call, vl, bcfg, benv, out, pacer, media, app_state, batch>>

\* connect() returns or raises in a suspended handler, main.py:407-410, 542-544
HookConnectReturns ==
    \E h \in 1..MaxHandlers :
        /\ hooks.handler[h].pc = "connect"
        /\ \E outcome \in ConnectOutcomes(bcfg.impl) :
             hooks' = [ hooks EXCEPT
                          !.sessions[hooks.handler[h].obj] =
                              IF @ = "connecting" THEN outcome ELSE @,
                          !.handler[h].pc = "done" ]
        /\ UNCHANGED <<controller, call, vl, bcfg, benv, out, pacer, media, app_state, batch>>

\* A CallDisconnected or CallEnded event, main.py:546-556
\* (app2/main.py:142-146): the session in the global is closed if active;
\* src/app clears the global in every case, src/app2 only after a close
HookCallEnded ==
    \E h \in 1..MaxHandlers :
        /\ hooks.handler[h].pc = "idle"
        /\ ~hooks.call_over
        /\ hooks' = [ hooks EXCEPT
                        !.call_over = TRUE,
                        !.sessions = IF SessionActive(hooks, hooks.session)
                                     THEN [ @ EXCEPT ![hooks.session] = "closed" ] ELSE @,
                        !.session = IF SessionActive(hooks, hooks.session) \/ bcfg.impl # "app2"
                                    THEN 0 ELSE @,
                        !.handler[h].pc = "done" ]
        /\ UNCHANGED <<controller, call, vl, bcfg, benv, out, pacer, media, app_state, batch>>

\* /app2's media route, app2/main.py:150-153: media_websocket is called with
\* the value the global has now
HookMediaWs ==
    /\ bcfg.impl = "app2"
    /\ hooks.socket.pc = "none"
    /\ hooks' = [ hooks EXCEPT !.socket = [ pc |-> "open", speech |-> hooks.session,
                                            frames |-> 0 ] ]
    /\ UNCHANGED <<controller, call, vl, bcfg, benv, out, pacer, media, app_state, batch>>

\* One inbound frame on /app2's media socket, _handle_inbound_pcm,
\* app2/media_bridge.py:106-121, with media_enable_voicelive_in set: the
\* frame goes to the session the handler was called with, if that is active
HookMediaFrame ==
    /\ bcfg.impl = "app2"
    /\ hooks.socket.pc = "open"
    /\ hooks.socket.frames < MaxHookFrames
    /\ bcfg.media_enable_voicelive_in
    /\ hooks' = [ hooks EXCEPT
                    !.socket.frames = @ + 1,
                    !.last_in = [ active |-> SessionActive(hooks, hooks.session),
                                  to |-> IF SessionActive(hooks, hooks.socket.speech)
                                         THEN hooks.socket.speech ELSE 0 ] ]
    /\ UNCHANGED <<controller, call, vl, bcfg, benv, out, pacer, media, app_state, batch>>

HookInit == BridgeInitWith({ Form("app"), Form("app2") }, QuietLine)

HookNext ==
    \/ HookCallConnected
    \/ HookConnectReturns
    \/ HookCallEnded
    \/ HookMediaWs
    \/ HookMediaFrame

HookSpec == HookInit /\ [][HookNext]_vars

(***************************************************************************)
(* Properties                                                              *)
(***************************************************************************)
\* A step in which the receive loop takes input_audio_buffer.committed.
CommittedReceived ==
    pending_acks' = pending_acks - 1 /\ vl'.commit_empty_errors = vl.commit_empty_errors

\* A step in which the receive loop takes the commit_empty error.
CommitEmptyReceived ==
    vl'.commit_empty_errors = vl.commit_empty_errors + 1

\* A step in which the bridge passes a frame to a session that takes frames.
FrameTaken ==
    submitted' = submitted + 1 /\ ~vl.closed /\ vl.input_format_ready

\* A step that puts the frame just submitted at the end of the staging buffer.
FrameStaged ==
    /\ Len(vl'.staged_frames) = Len(vl.staged_frames) + 1
    /\ vl'.staged_frames[Len(vl'.staged_frames)].id = submitted'
    /\ appended' = appended

\* The ack timeout of the specification ("an ack is expected within a few
\* hundred milliseconds"), taken at its longest reading.
AckTimeoutMs == 500

\* A strictly increasing sequence of frame ids.
Increasing(ids) ==
    \A i \in 1..(Len(ids) - 1) : ids[i] < ids[i + 1]

\* C1: a commit is never sent while an earlier commit is still unanswered:
\* at most one input_audio_buffer.commit is in flight at any time.
OneCommitInFlight ==
    pending_acks <= 1

\* C2: while a commit is unanswered no input_audio_buffer.append is sent,
\* and every frame passed to send_input_audio_frame in that window is staged.
StagedWhileAwaiting ==
    [][ /\ (pending_acks > 0 /\ pending_acks' > 0) => appended' = appended
        /\ (pending_acks > 0 /\ FrameTaken) => FrameStaged ]_vars

\* C3: when input_audio_buffer.committed arrives, the staged frames are taken
\* out of the staging buffer and replayed in arrival order, the first of them
\* going out at once, whatever the response state and the auto-response setting.
CommittedReplaysStaged ==
    [][ (CommittedReceived /\ vl.staged_frames # <<>>)
           => /\ appended' = Append(appended, vl.staged_frames[1].id)
              /\ frames_to_send' = Tail(vl.staged_frames)
              /\ vl'.staged_frames = <<>> ]_vars

\* C4: frames are appended to the service's input buffer in the order in which
\* the bridge submitted them.
AppendOrderPreserved ==
    Increasing(appended)

\* C5: a commit sent while the accumulator holds zero speech frames carries
\* one of the triggers max_buffer_safety, no_speech_timeout,
\* low_speech_escalation; silence_after_speech and barge_in commits carry at
\* least one speech frame.
ZeroSpeechOnlyFlush ==
    (last_commit.trigger # "" /\ last_commit.speech_frames = 0)
        => last_commit.trigger \in FlushTriggers

\* C5, reached: the universal guard refused a commit whose trigger is not
\* one of the three flush triggers.
GuardRefused ==
    last_eval.guarded # "" /\ last_eval.guarded \notin FlushTriggers

\* C6: a barge-in fires only on a frame at least barge_in_lock_ms into the
\* agent burst, and a frame evaluated inside the lock window leaves no
\* barge-in candidate behind.
BargeInRespectsLock ==
    /\ last_eval.fired => last_eval.elapsed >= cfg.vl_barge_in_lock_ms
    /\ (last_eval.evaluated /\ last_eval.elapsed < cfg.vl_barge_in_lock_ms)
          => /\ vl.barge_in_candidate_start_ms = None
             /\ vl.barge_in_frames = 0

\* C6, reached: a loud frame is evaluated past the agent grace period but
\* still inside the lock window.
LoudFrameInLock ==
    /\ last_eval.evaluated /\ last_eval.locked
    /\ last_eval.rms >= StaticSpeechRms
    /\ last_eval.elapsed >= cfg.vl_barge_in_min_agent_ms

\* C7: a frame evaluated after 3 consecutive low-speech blocks, with at
\* least max_buffer_ms buffered and no commit outstanding, sends a commit
\* with trigger low_speech_escalation.
EscalationForcesCommit ==
    ( /\ last_eval.blocks_before >= EscalationBlocks
      /\ last_eval.buffered_ms >= cfg.vl_max_buffer_ms
      /\ last_eval.could_commit )
        => last_eval.trigger = "low_speech_escalation"

\* C8: the first commit sent after a commit_empty error comes after at least
\* 8 further appended frames and with at least adaptive_min_ms + safety_ms
\* of audio buffered.
CooldownAndThreshold ==
    last_commit.since_empty # None
        => /\ last_commit.since_empty >= CooldownFrames
           /\ last_commit.in_ms >= last_commit.threshold_ms

AckTimeoutTearsDown ==
    ( /\ pending_acks > 0
      /\ vl.awaiting_commit_ack
      /\ now - vl.last_commit_ms >= AckTimeoutMs )
        => vl.closed

(***************************************************************************)
(* Properties of the media bridge                                          *)
(***************************************************************************)
Segmenting == bcfg.impl \in {"app", "app2"}

\* C11: the outbound ring never holds more than its capacity; a frame queued
\* on a full ring removes exactly the oldest one, and the frames in the ring
\* are the latest frames cut, in the order in which they were cut.
RingBounded ==
    /\ Len(out.seg_queue) <= Capacity(bcfg)
    /\ \A i \in 1..Len(out.seg_queue) :
         out.seg_queue[i].seq = out.log.produced - Len(out.seg_queue) + i
    /\ Segmenting =>
         out.log.last.evicted
           = Max(0, out.log.last.before + out.log.last.created - RingCapacity)

\* A payload arrived at a full ring and pushed frames out of it.
RingOverflowed ==
    /\ bcfg.impl = "app"
    /\ out.log.last.before = RingCapacity
    /\ out.log.last.evicted > 1
    /\ Len(out.seg_queue) = RingCapacity

\* C12: the dropped-frame counter of the session's outbound side equals the
\* number of frames removed from the full ring, whatever the sizes of the
\* payloads.
DropsCounted ==
    bcfg.impl = "app" => out.out_dropped_frames = out.log.evicted

\* C13: every frame sent to the telephony socket, and every frame waiting in
\* the ring, is exactly media_frame_bytes long.
FramesSentWhole ==
    /\ pacer.last_sent # <<>> => ByteLen(pacer.last_sent) = bcfg.media_frame_bytes
    /\ \A i \in 1..Len(out.seg_queue) :
         ByteLen(out.seg_queue[i].bytes) = bcfg.media_frame_bytes

\* A frame went out while bytes of a payload that was no whole number of
\* frames wait for the next payload.
FrameSentFromOddPayload ==
    /\ pacer.last_sent # <<>>
    /\ out.seg_buffer # <<>>
    /\ out.log.deltas > 1

\* C14: after each payload the assembly buffer holds less than one frame,
\* and the bytes cut into frames followed by the bytes in the buffer are the
\* bytes of the payloads, in order.
AssemblyConserved ==
    Segmenting =>
      /\ ByteLen(out.seg_buffer) < bcfg.media_frame_bytes
      /\ Extend(out.log.cut, out.seg_buffer) = out.log.payload

\* Frames were cut from payloads of which a part is still in the buffer, a
\* part that arrived with an earlier payload than the last.
PartialFrameCarried ==
    /\ Segmenting
    /\ out.log.produced > 1
    /\ out.seg_buffer # <<>>
    /\ Len(out.log.cut) > 0
    /\ out.log.deltas > 2

\* C15: an inbound audio message, JSON or binary, whose payload is a whole
\* number of frames has each of its frames forwarded to the session, in
\* order, when the session is active and input bridging is enabled.
AllFramesForwarded ==
    ( /\ media.last_in.kind \in {"audio", "binary"}
      /\ media.last_in.len % bcfg.media_frame_bytes = 0
      /\ media.last_in.bridging )
    => media.last_in.forwarded
         = [ k \in 1..(media.last_in.len \div bcfg.media_frame_bytes) |-> k - 1 ]

\* C16: exactly one ack is sent after the accept and before any inbound
\* message is read: the receive loop is never entered without it.
AckBeforeRead ==
    /\ media.acks <= 1
    /\ (media.pc = "open" \/ media.reads > 0) => media.acks = 1

\* The receive loop read a message and passed its frames on, the ack sent.
InboundReadAfterAck ==
    /\ media.acks = 1
    /\ media.reads > 0
    /\ media.last_in.forwarded # <<>>

\* C17: the outbound sender emits at most one frame between two pacing
\* sleeps.
OneFramePerTick ==
    pacer.since_sleep <= 1

\* The ids of the frames the session still has: sent, staged, being replayed
\* or inside a suspended call.
HeldIds ==
    { appended[i] : i \in 1..Len(appended) }
      \cup { vl.staged_frames[i].id : i \in 1..Len(vl.staged_frames) }
      \cup { frames_to_send[i].id : i \in 1..Len(frames_to_send) }
      \cup { task[t].frame.id : t \in Tasks }

\* C18: before session.updated no input audio is appended, and the frames
\* submitted in the meantime are held for later, not lost.
HeldUntilReady ==
    (~vl.input_format_ready /\ ~vl.closed) =>
        /\ appended = <<>>
        /\ \A i \in 1..submitted : i \in HeldIds

\* C19: a malformed inbound message is dropped and the inbound loop goes on
\* reading.
MalformedDropped ==
    media.last_in.kind \in Malformed => media.pc = "open"

ThresholdWithinRange ==
    (cfg.dynamic_rms_enabled /\ vl.current_dynamic_threshold # None)
        => /\ vl.current_dynamic_threshold >= cfg.vl_dynamic_rms_min
           /\ vl.current_dynamic_threshold <= cfg.vl_dynamic_rms_max

\* A frame was processed whose noise floor plus the smallest offset lies above
\* the ceiling, and the threshold is the ceiling.
ThresholdClamped ==
    /\ cfg.dynamic_rms_enabled
    /\ vl.noise_rms_samples # <<>>
    /\ NoiseFloor(vl.noise_rms_samples) + cfg.vl_offset_decay_min > cfg.vl_dynamic_rms_max
    /\ vl.current_dynamic_threshold = cfg.vl_dynamic_rms_max

BargeInLatched ==
    [][ /\ (vl.barge_in_triggered /\ ~vl'.barge_in_triggered)
            => ( /\ service.open \/ service.refused
                 /\ ~service'.open /\ ~service'.refused
                 /\ vl' = ResponseDone(vl) )
        /\ (vl'.barge_in_last_trigger_ms # vl.barge_in_last_trigger_ms)
            => (~vl.barge_in_triggered /\ vl'.barge_in_triggered) ]_vars

\* A later frame met the trigger conditions again during the same response and
\* did not fire.
BargeInHeldBack ==
    /\ vl.barge_in_triggered
    /\ last_eval.evaluated
    /\ last_eval.ready
    /\ ~last_eval.fired

\* C30: after an error event with code conversation_already_has_active_response
\* the session has response_active set, and no automatic response.create is
\* sent on a committed acknowledgement until response.done is received.
NoCreateWhileRefused ==
    ~service.recreated

\* C27: in the step in which a barge-in fires, response_active and the
\* current-burst flag are cleared and the outbound ring is empty afterwards;
\* the frames that were queued are dropped, so every frame handed out later
\* is newer than the newest frame a barge-in removed.
BargeInEmptiesRing ==
    [][ /\ (~vl.barge_in_triggered /\ vl'.barge_in_triggered)
            => /\ ~vl'.response_active
               /\ ~vl'.current_burst_active
               /\ out'.seg_queue = <<>>
        /\ (pacer'.got # pacer.got) => pacer'.got > out'.log.flushed_seq ]_vars

\* A barge-in removed queued frames, and a frame cut after it was sent to the
\* telephony socket.
SentAfterBargeIn ==
    /\ vl.barge_in_triggered
    /\ out.log.flushed_seq > 0
    /\ pacer.got > out.log.flushed_seq
    /\ pacer.last_sent # <<>>
    /\ pacer.since_sleep > 0

\* C25: get_next_outbound_frame returns no frame when the session is
\* inactive: once the session is closed no frame is handed out, even if
\* frames are still queued.
NoFrameOnceClosed ==
    [][ (pacer'.got # pacer.got) => ~vl.closed ]_vars

\* C21: after every exit of the media websocket handler from its receive
\* loop (peer disconnect, receive error, error while processing a message) the
\* outbound loop has ended or is cancelled, the socket is no longer among the
\* active media sockets and the runtime state records the websocket as closed.
HandlerExitReleases ==
    (media.pc = "closed" /\ media.cause \in {"disconnect", "error"})
        => /\ pacer.pc \in {"off", "ended", "cancelled"}
           /\ ~media.registered
           /\ ~media.upstream_active


\* C24: close() on a speech session is idempotent: however often it is
\* called, the underlying connection is closed at most once, and a closed
\* session stays closed.
CloseIdempotent ==
    /\ call.conn_closes <= 1
    /\ call.close_calls > 0 => vl.closed


\* The call has run into one of its limits.
Expired ==
    \/ call.elapsed > bcfg.call_timeout_sec
    \/ call.idle > bcfg.call_idle_timeout_sec

\* C22: when the call's elapsed time exceeds call_timeout_sec, or the time
\* since the last event exceeds call_idle_timeout_sec, the call is eventually
\* ended: it is recorded as ended with its reason, the speech session is
\* closed, the telephony media socket is closed and the sending task stopped.
TimedOutCallTornDown ==
    Expired ~> ( /\ ~call.active /\ call.end_reason # ""
                 /\ vl.closed
                 /\ media.pc = "closed"
                 /\ pacer.pc \in {"off", "ended", "cancelled"} )

\* C23: when the speech session is down while the telephony websocket is
\* connected, the whole call is ended: it is marked ended and the telephony
\* leg is closed.
SpeechDownEndsCall ==
    (vl.closed /\ media.pc = "open") ~> (~call.active /\ media.pc = "closed")


(***************************************************************************)
(* Properties of the runtime state                                         *)
(***************************************************************************)
\* What the live state holds and what the view returned by snapshot() holds
Live(a) ==
    [ current |-> Deref(a, a.current_call), last |-> Deref(a, a.last_call),
      inFrames |-> a.inFrames ]
View(a) ==
    [ current |-> Deref(a, a.view.current), last |-> Deref(a, a.view.last),
      inFrames |-> a.view.inFrames ]
StateOps == { "begin_call", "end_call", "media_in_frame", "tick" }

\* C31: snapshot() returns a deep copy of the runtime state: taking it does
\* not change the state it reads, the view shares no dict with the live
\* state, and a later change of the state does not show in the view.
SnapshotIsDeepCopy ==
    [][ /\ app_state'.op = "snapshot" =>
             /\ Live(app_state') = Live(app_state)
             /\ ({ app_state'.view.current, app_state'.view.last } \ { None })
                  \cap { app_state'.current_call, app_state'.last_call } = {}
        /\ (app_state.view.taken /\ app_state'.op \in StateOps) =>
             View(app_state') = View(app_state) ]_vars


(***************************************************************************)
(* Properties of scripted calls and of the commit gates                    *)
(***************************************************************************)
\* The frame of the script on which the trailing silence reaches the
\* configured silence_commit_ms.
SilenceReachedAt ==
    env.script[1].n + env.script[2].n + cfg.vl_silence_commit_ms \div FrameMs

\* C32: in the silence-then-speech scenario no commit is sent during the
\* initial silence or the speech; the first commit is sent on the frame on
\* which trailing silence reaches 140 ms, with trigger silence_after_speech
\* and the 40 speech frames in the accumulator.
ScenarioFirstCommit ==
    [][ (Scripted /\ last_commit = NoCommit /\ last_commit' # NoCommit) =>
          /\ last_commit'.trigger = "silence_after_speech"
          /\ last_commit'.speech_frames = env.script[2].n
          /\ submitted = SilenceReachedAt ]_vars

\* The scenario's commit was sent.
ScenarioCommitted ==
    /\ Scripted
    /\ submitted >= SilenceReachedAt
    /\ last_commit.trigger = "silence_after_speech"

\* The number of speech frames a commit needs: the bootstrap value while the
\* bootstrap window is active, min_speech_frames_for_commit after it.
RequiredSpeechFrames(bootstrap, c) ==
    IF bootstrap THEN c.vl_bootstrap_min_speech_frames ELSE c.vl_min_speech_frames

\* A step in which a frame raised a commit trigger that the gate applies to.
GateApplied ==
    /\ last_eval' # last_eval
    /\ cfg.vl_min_speech_frames > 0
    /\ last_eval'.raised \notin { "", "max_buffer_safety" }

\* C34: for every trigger other than max_buffer_safety the commit is blocked
\* exactly when the accumulator holds fewer speech frames than required
\* (min_speech_frames_for_commit, or the bootstrap value while the bootstrap
\* window is active), and each block increments low_speech_block_count.
MinSpeechFramesGate ==
    [][ GateApplied =>
          /\ last_eval'.gated <=>
                (last_eval'.speech_frames < RequiredSpeechFrames(last_eval'.bootstrap, cfg))
          /\ last_eval'.gated =>
                vl'.low_speech_block_count = last_eval'.blocks_before + 1 ]_vars

\* C33: after a barge-in has fired and until response.done is received
\* (barge_in_triggered is set for exactly that time), the agent's output is
\* cancelled: no further frame is cut into the outbound ring, none is handed
\* to the telephony side, and response_active stays false.
AgentOutputCancelled ==
    [][ (vl.barge_in_triggered /\ vl'.barge_in_triggered) =>
          /\ ~vl'.response_active
          /\ out'.log.produced = out.log.produced
          /\ pacer'.got = pacer.got ]_vars

\* C35: a barge-in candidate is cleared by hysteresis only when the frame
\* that clears it is the last of barge_in_release_frames consecutive frames
\* below 0.65 x the effective threshold.
ReleaseNeedsConsecutiveFrames ==
    last_eval.released => last_eval.quiet_run >= cfg.vl_barge_in_release_frames

\* C36: every frame the outbound path sends to the telephony socket goes out
\* once and in the configured wire format, binary when media_out_format is
\* binary and a JSON AudioData text message otherwise, also while a backlog
\* is drained.
WireFormatKept ==
    pacer.wire # <<>> => pacer.wire = ConfiguredWire(bcfg.media_out_format)

\* C37: a frame placed in the staging buffer is appended to the service
\* whichever event ends the wait: when the commit_empty error clears the
\* awaiting flag, the frames staged during that wait leave the staging buffer
\* for the service, the first of them going out at once, instead of staying
\* behind until some later committed acknowledgement.
CommitEmptyDeliversStaged ==
    [][ (CommitEmptyReceived /\ vl.staged_frames # <<>>)
           => /\ vl'.staged_frames = <<>>
              /\ appended' = Append(appended, vl.staged_frames[1].id) ]_vars

\* The frames of the append payloads sent so far, in wire order
RECURSIVE Concat(_)
Concat(payloads) ==
    IF payloads = <<>> THEN <<>> ELSE Head(payloads) \o Concat(Tail(payloads))

\* C38: in the batching SpeechSession every frame accepted into the input
\* buffer goes out in exactly one input_audio_buffer.append payload, in
\* order: no frame is on the wire twice and none is lost, also when
\* send_input_frame runs while a flush is suspended in its append.
BatchedExactlyOnce ==
    LET sent == Concat(batch.wire) IN
    /\ Increasing(sent)
    /\ \A f \in 1..batch.accepted :
          \/ \E i \in 1..Len(sent) : sent[i] = f
          \/ \E i \in 1..Len(batch.input_buffer) : batch.input_buffer[i] = f

\* The session objects that are being connected or are connected and not
\* closed
LiveSessions(h) ==
    { i \in 1..Len(h.sessions) : h.sessions[i] \in {"connecting", "open"} }

\* C39: at most one speech session is created and left open per call: when
\* CallConnected events of the current call are handled concurrently, no
\* second session is created while the first is being connected, and every
\* connected session that is not closed is the one the global holds.
OneSessionPerCall ==
    /\ Cardinality(LiveSessions(hooks)) <= 1
    /\ \A i \in 1..Len(hooks.sessions) :
          hooks.sessions[i] = "open" => hooks.session = i

\* C40: in the /app2 bridge an inbound frame is forwarded to the speech
\* session whenever a session is active when the frame arrives, also when the
\* media websocket was accepted before CallConnected created the session.
FramesReachActiveSession ==
    (hooks.socket.frames > 0 /\ hooks.last_in.active) => hooks.last_in.to = hooks.session

====
